---- MODULE Spec2Model ----
(***************************************************************************)
(* Model of punchcard's AppSync resolver-pipeline compiler                 *)
(* (packages/punchcard/lib/appsync/api/api.ts and the expression builder). *)
(*                                                                         *)
(* Spec       : interpretResolverPipeline for one record type: every field *)
(*              program is interpreted statement by statement and the      *)
(*              resolver is assembled, then generateTypeSignature runs.    *)
(* SchemaSpec : parseType / parseInputType over a type graph.              *)
(* AnnSpec    : getTypeAnnotation applied to a shape.                      *)
(* IfSpec     : the interpreter on a program that yields if statements.    *)
(* RenderSpec : write statements of blocks, JSON literals and directives.  *)
(* TwiceSpec  : the build run twice on the same input.                     *)
(* CacheSpec  : resolvers of a field with cache metadata.                  *)
(* MapSpec    : a type whose field holds a map shape.                      *)
(* JsonSpec   : write statements of VExpression.json literals.             *)
(* MemoSpec   : getOrCreate calls on a Cache (src/core/cache.ts).          *)
(* NamesSpec  : a build over several record types.                         *)
(***************************************************************************)
EXTENDS Integers, Sequences, FiniteSets, TLC

VARIABLES
  typeSpec,    \* the TypeSpec being compiled: [type |-> FQN, fields |-> <<field>>]
  fieldIdx,    \* index of the field whose program is being interpreted
  pc,          \* "interpret" | "built" | "failed" (| "idle" outside Spec)
  state,       \* InterpreterState: [template, ids, indentSpaces]
  loops,       \* open for-loop bodies (nested interpretProgram calls)
  ifs,         \* open if statements: the values their completed branches returned
  functions,   \* the field's CfnFunctionConfigurationProps list
  stageCount,  \* the field's stage counter
  sent,        \* values sent back into the field's program, in order
  yielded,     \* statements the field's program has yielded, in order
  steps,       \* statements yielded and else branches entered over the whole build
  resolvers,   \* CfnResolver props created, one entry per assembled field
  constructs,  \* construct ids instantiated in the scope, in order
  directives,  \* Directives: field index -> seq of directive strings
  blocks,      \* SDL blocks
  error,       \* message of the error that aborted the build
  earlier,     \* what an earlier build of the same input produced, if there was one
  apiCache,    \* whether the CfnApiCache exists (props.caching was given)
  runtimeCache, \* a Cache of core/cache.ts and the getOrCreate calls made on it
  schema,      \* SchemaSpec state
  ann          \* AnnSpec state

buildVars == <<typeSpec, fieldIdx, pc, state, loops, ifs, functions, stageCount,
               sent, yielded, steps, resolvers, constructs, directives,
               blocks, error, earlier, apiCache>>
resolverVars == <<buildVars, runtimeCache>>
vars == <<resolverVars, schema, ann>>

(***************************************************************************)
(* Bounds                                                                  *)
(***************************************************************************)
\* statements yielded and else branches entered over one build
MaxStmts == 3
\* nesting depth of for-loops
MaxLoops == 1

\* private readonly cache = {}: no own properties, and no getOrCreate call yet
NewCache == [cache |-> <<>>, calls |-> <<>>]

(***************************************************************************)
(* Text helpers: names are sequences of one-character strings              *)
(***************************************************************************)
Digits == <<"0", "1", "2", "3", "4", "5", "6", "7", "8", "9">>

\* Number.prototype.toString(10) for n >= 0, as a sequence of digit characters
RECURSIVE toString10(_)
toString10(n) ==
  IF n < 10 THEN <<Digits[n + 1]>>
  ELSE toString10(n \div 10) \o <<Digits[(n % 10) + 1]>>

\* the string made of the characters of cs
RECURSIVE StrOf(_)
StrOf(cs) == IF cs = <<>> THEN "" ELSE Head(cs) \o StrOf(Tail(cs))

IdentChars ==
  {"_"} \cup {Digits[i] : i \in 1..10} \cup
  {"a","b","c","d","e","f","g","h","i","j","k","l","m","n","o","p","q","r",
   "s","t","u","v","w","x","y","z"} \cup
  {"A","B","C","D","E","F","G","H","I","J","K","L","M","N","O","P","Q","R",
   "S","T","U","V","W","X","Y","Z"}

\* .replace(/[^_0-9A-Za-z]/g, '_')
ReplaceNonIdent(cs) ==
  [i \in 1..Len(cs) |-> IF cs[i] \in IdentChars THEN cs[i] ELSE "_"]

\* fieldFQN = `${typeName}_${fieldName}`.replace(/[^_0-9A-Za-z]/g, '_')
fieldFQN(typeName, fieldName) == ReplaceNonIdent(typeName \o <<"_">> \o fieldName)

(***************************************************************************)
(* Shapes (@punchcard/shape).  A record or enum is referred to by its FQN; *)
(* its members live in the type system, so type graphs may be cyclic.      *)
(***************************************************************************)
NoFQN == "<undefined>"
NoGraphqlType == "<undefined>"

Scalar(kind) ==
  [Kind |-> kind, FQN |-> NoFQN, nullable |-> FALSE, graphqlType |-> NoGraphqlType]
string == Scalar("stringShape")
boolean == Scalar("boolShape")
number == Scalar("numberShape")
integer == Scalar("integerShape")
timestamp == Scalar("timestampShape")
any == Scalar("anyShape")
binary == Scalar("binaryShape")
nothing == Scalar("nothingShape")
Record(fqn) ==
  [Kind |-> "recordShape", FQN |-> fqn, nullable |-> FALSE, graphqlType |-> NoGraphqlType]
Enum(fqn) ==
  [Kind |-> "enumShape", FQN |-> fqn, nullable |-> FALSE, graphqlType |-> NoGraphqlType]
array(item) ==
  [Kind |-> "arrayShape", FQN |-> NoFQN, nullable |-> FALSE,
   graphqlType |-> NoGraphqlType, Items |-> item]
set(item) ==
  [Kind |-> "setShape", FQN |-> NoFQN, nullable |-> FALSE,
   graphqlType |-> NoGraphqlType, Items |-> item]
map(item) ==
  [Kind |-> "mapShape", FQN |-> NoFQN, nullable |-> FALSE,
   graphqlType |-> NoGraphqlType, Items |-> item]
\* the alternatives of a union are kept in UnionItems (Items in the source)
union(items, fqn) ==
  [Kind |-> "unionShape", FQN |-> fqn, nullable |-> FALSE,
   graphqlType |-> NoGraphqlType, UnionItems |-> items]
VFunction(args, returns) ==
  [Kind |-> "functionShape", FQN |-> NoFQN, nullable |-> FALSE,
   graphqlType |-> NoGraphqlType, args |-> args, returns |-> returns]

\* shape.apply(Optional): the shape decorated with { nullable: true }
optional(shape) == [shape EXCEPT !.nullable = TRUE]
\* shape.apply({ graphqlType }): the shape decorated with a GraphQL type name
withGraphqlType(shape, name) == [shape EXCEPT !.graphqlType = name]

\* isOptional, as a bug would write it (no shape is optional)
isOptionalNever(a) == FALSE

\* a[Decorated.Data] && a[Decorated.Data].nullable === true
isOptional(a) == a.nullable = TRUE

isArrayShape(s) == s.Kind = "arrayShape"
isSetShape(s) == s.Kind = "setShape"
isMapShape(s) == s.Kind = "mapShape"
isCollectionShape(s) == isArrayShape(s) \/ isSetShape(s) \/ isMapShape(s)
isStringShape(s) == s.Kind = "stringShape"
isTimestampShape(s) == s.Kind = "timestampShape"
isAnyShape(s) == s.Kind = "anyShape"
isBoolShape(s) == s.Kind = "boolShape"
isIntegerShape(s) == s.Kind = "integerShape"
isNumberShape(s) == s.Kind = "numberShape" \/ isIntegerShape(s)
isRecordShape(s) == s.Kind = "recordShape"
isUnionShape(s) == s.Kind = "unionShape"
isEnumShape(s) == s.Kind = "enumShape"
isFunctionShape(s) == s.Kind = "functionShape"
isNothingShape(s) == s.Kind = "nothingShape"

(***************************************************************************)
(* getTypeAnnotation: the GraphQL type annotation of a shape, as a token   *)
(* sequence, or a Failure when the code throws.                            *)
(***************************************************************************)
Failure(msg) == [failed |-> TRUE, message |-> msg, tokens |-> <<>>]
Annotation(tokens) == [failed |-> FALSE, message |-> "", tokens |-> tokens]

\* the error about maps, as a bug would write it (no hint at a record type)
MapsNotSupportedNoHint == "maps are not supported in GraphQL"

MapsNotSupported == "maps are not supported in GraphQL - use a RecordType instead"
RecordNeedsFQN == "Only records with a FQN are supported as types in Graphql"
ShapeNotSupported == "shape type is not supported by GraphQL"

UndefinedShape == "Cannot read property 'Kind' of undefined"

\* the value of a find that found nothing
NoShape == Scalar("<undefined>")

\* shape.Items.find(i => !isNothingShape(i))
FirstNonNothing(items) ==
  IF \A i \in DOMAIN items : isNothingShape(items[i]) THEN NoShape
  ELSE items[CHOOSE i \in DOMAIN items :
               /\ ~isNothingShape(items[i])
               /\ \A j \in 1..(i - 1) : isNothingShape(items[j])]

\* isNumberShape(shape) branch of getTypeName, as a bug would write it
NumberTypeNameFloatOnly(shape) == "Float"

\* return ShapeGuards.isIntegerShape(shape) ? 'Int' : 'Float'
NumberTypeName(shape) == IF isIntegerShape(shape) THEN "Int" ELSE "Float"

\* the suffix of an annotation, as a bug would write it
NonNullSuffixAlways(isNullable) == <<"!">>

\* `${isNullable === true ? '' : '!'}`
NonNullSuffix(isNullable) == IF isNullable = TRUE THEN <<>> ELSE <<"!">>

\* shape = shape.Items.find(i => !isNothingShape(i)) when the shape is a nullable union
Unwrap(shape) ==
  IF isOptional(shape) /\ isUnionShape(shape) THEN FirstNonNothing(shape.UnionItems)
  ELSE shape

\* `[${getTypeAnnotation(shape.Items)}]`
Bracketed(inner) ==
  IF inner.failed THEN inner ELSE Annotation(<<"[">> \o inner.tokens \o <<"]">>)

\* `${getTypeName()}${isNullable === true ? '' : '!'}`
Suffixed(typeName, isNullable) ==
  IF typeName.failed THEN typeName
  ELSE Annotation(typeName.tokens \o NonNullSuffix(isNullable))

RECURSIVE getTypeAnnotation(_)
RECURSIVE getTypeName(_, _)
\* getTypeName() of getTypeAnnotation, for the unwrapped shape
getTypeName(graphqlType, shape) ==
  IF graphqlType # NoGraphqlType THEN Annotation(<<graphqlType>>)
  ELSE IF shape.Kind = NoShape.Kind THEN Failure(UndefinedShape)
  ELSE IF isArrayShape(shape) \/ isSetShape(shape)
    THEN Bracketed(getTypeAnnotation(shape.Items))
  ELSE IF isMapShape(shape) THEN Failure(MapsNotSupported)
  ELSE IF isStringShape(shape) THEN Annotation(<<"String">>)
  ELSE IF isTimestampShape(shape) THEN Annotation(<<"AWSDateTime">>)
  ELSE IF isAnyShape(shape) THEN Annotation(<<"AWSJSON">>)
  ELSE IF isBoolShape(shape) THEN Annotation(<<"Boolean">>)
  ELSE IF isNumberShape(shape) THEN Annotation(<<NumberTypeName(shape)>>)
  ELSE IF isRecordShape(shape) THEN
    IF shape.FQN = NoFQN THEN Failure(RecordNeedsFQN) ELSE Annotation(<<shape.FQN>>)
  ELSE IF isUnionShape(shape) /\ shape.FQN # NoFQN THEN Annotation(<<shape.FQN>>)
  ELSE IF isEnumShape(shape) /\ shape.FQN # NoFQN THEN Annotation(<<shape.FQN>>)
  ELSE Failure(ShapeNotSupported)

getTypeAnnotation(shape) ==
  Suffixed(getTypeName(shape.graphqlType, Unwrap(shape)), isOptional(shape))

(***************************************************************************)
(* InterpreterState: template token buffer, id counters, indentation.      *)
(* fault is the message of the error thrown while the state was being      *)
(* written, "" when none was thrown.                                       *)
(***************************************************************************)
\* no build has run before this one
NoBuild == [done |-> FALSE]

IdPrefixes == {"var", "item", "local"}

NewInterpreterState ==
  [template |-> <<>>, ids |-> [p \in IdPrefixes |-> 0], indentSpaces |-> 0, fault |-> ""]

\* id(prefix): `${prefix}${(inc[prefix] += 1).toString(10)}`, as a bug would write it
\* (one number handed out twice)
NewIdNameStale(st, prefix) == prefix \o StrOf(toString10(st.ids[prefix]))

\* id(prefix): `${prefix}${(inc[prefix] += 1).toString(10)}`
NewIdName(st, prefix) == prefix \o StrOf(toString10(st.ids[prefix] + 1))
\* the counter of id(prefix), as a bug would write it (the counter is not advanced)
NewIdStateKept(st, prefix) == st

\* inc[prefix] += 1
NewIdState(st, prefix) == [st EXCEPT !.ids[prefix] = @ + 1]

\* write of a literal string
WriteText(st, s) == [st EXCEPT !.template = Append(@, s)]

\* indent()
Indent(st) == [st EXCEPT !.indentSpaces = @ + 1]

\* unindent(), as a bug would write it (the depth is never checked)
UnindentUnchecked(st) == [st EXCEPT !.indentSpaces = @ - 1]

\* unindent(): the depth is lowered first and checked afterwards
Unindent(st) ==
  LET lowered == [st EXCEPT !.indentSpaces = @ - 1]
  IN IF lowered.indentSpaces < 0 /\ st.fault = ""
     THEN [lowered EXCEPT !.fault = "indent underflow"]
     ELSE lowered

\* the '  ' tokens of the automatic indentation
RECURSIVE Spaces(_)
Spaces(n) == IF n <= 0 THEN <<>> ELSE <<"  ">> \o Spaces(n - 1)

\* writeLine(): a line break followed by the automatic indentation
WriteLine(st) == [st EXCEPT !.template = @ \o <<"\n">> \o Spaces(st.indentSpaces)]

(***************************************************************************)
(* VExpression: text | concat | indent | unindent | line                   *)
(***************************************************************************)
VText(s) == [t |-> "text", s |-> s, parts |-> <<>>]
VConcat(parts) == [t |-> "concat", s |-> "", parts |-> parts]
VIndent == [t |-> "indent", s |-> "", parts |-> <<>>]
VUnindent == [t |-> "unindent", s |-> "", parts |-> <<>>]
VLine == [t |-> "line", s |-> "", parts |-> <<>>]

\* VExpression.block(expr), as a bug would write it (the block is never closed)
VBlockOpen(expr) == VConcat(<<VIndent, VLine, expr, VLine>>)

\* VExpression.block(expr)
VBlock(expr) == VConcat(<<VIndent, VLine, expr, VUnindent, VLine>>)

\* expr.visit(state): the state after the expression has been rendered into it
RECURSIVE visit(_, _)
RECURSIVE visitAll(_, _)
visit(expr, st) ==
  CASE expr.t = "text" -> WriteText(st, expr.s)
    [] expr.t = "concat" -> visitAll(expr.parts, st)
    [] expr.t = "indent" -> Indent(st)
    [] expr.t = "unindent" -> Unindent(st)
    [] expr.t = "line" -> WriteLine(st)
\* the parts are visited in order; a thrown error ends the visit
visitAll(parts, st) ==
  IF parts = <<>> \/ st.fault # "" THEN st
  ELSE visitAll(Tail(parts), visit(Head(parts), st))

\* state.write(...expressions)
Write(st, expressions) == visitAll(expressions, st)

\* the values VExpression.json is applied to, by what the tests of json tell
\* apart: an expression, a VObject, a string, a number, a boolean, null,
\* undefined, a Date (with its toISOString text), an array, an object with its
\* Object.entries, a function and a symbol
LExpression(expr) == [kind |-> "expression", expr |-> expr]
LObject(value) == [kind |-> "vobject", value |-> value]
LString(s) == [kind |-> "string", s |-> s]
LNumber(n) == [kind |-> "number", n |-> n]
LBoolean(b) == [kind |-> "boolean", b |-> b]
LNull == [kind |-> "null"]
LUndefined == [kind |-> "undefined"]
LDate(iso) == [kind |-> "date", iso |-> iso]
LArray(items) == [kind |-> "array", items |-> items]
LRecord(members) == [kind |-> "object", members |-> members]
LFunction == [kind |-> "function"]
LSymbol == [kind |-> "symbol"]

\* obj.toString(10) of an integer
NumberText(n) == IF n < 0 THEN "-" \o StrOf(toString10(0 - n)) ELSE StrOf(toString10(n))

\* `could not convert literal type to expression: ${obj}`
CouldNotConvert == "could not convert literal type to expression"

Converted(expr) == [failed |-> FALSE, message |-> "", expr |-> expr]
NotConverted(msg) == [failed |-> TRUE, message |-> msg, expr |-> VText("")]

\* the array case of json, as a bug would write it (a comma after every item)
JsonArrayTrailingComma(items) ==
  VConcat(<<VText("["), VIndent, VLine>>
          \o [i \in 1..Len(items) |->
                VConcat(<<items[i], VConcat(<<VText(","), VLine>>)>>)]
          \o <<VUnindent, VLine, VText("]")>>)

\* VExpression.json of a plain object whose members are given as
\* <<[name |-> n, value |-> expression]>>, the values already converted
JsonObject(members) ==
  VConcat(<<VText("{"), VIndent, VLine>>
          \o [i \in 1..Len(members) |->
                VConcat(<<VText("\"" \o members[i].name \o "\": "),
                          members[i].value,
                          IF i < Len(members) THEN VConcat(<<VText(","), VLine>>)
                          ELSE VText("")>>)]
          \o <<VUnindent, VLine, VText("}")>>)

\* VExpression.json of an array whose items are already converted
JsonArray(items) ==
  VConcat(<<VText("["), VIndent, VLine>>
          \o [i \in 1..Len(items) |->
                VConcat(<<items[i],
                          IF i < Len(items) THEN VConcat(<<VText(","), VLine>>)
                          ELSE VText("")>>)]
          \o <<VUnindent, VLine, VText("]")>>)

\* VExpression.json of a string literal
JsonString(s) == VText("\"" \o s \o "\"")

\* VExpression.json(obj): the expression, or the error thrown; the conversion of
\* an item or member that throws ends the conversion of the whole value
RECURSIVE json(_)
json(obj) ==
  IF obj.kind = "expression" THEN Converted(obj.expr)
  ELSE IF obj.kind = "vobject"
    THEN Converted(VConcat(<<VText("$util.toJson"), VText("("), obj.value.expr,
                             VText(")")>>))
  ELSE IF obj.kind = "string" THEN Converted(JsonString(obj.s))
  ELSE IF obj.kind = "number" THEN Converted(VText(NumberText(obj.n)))
  ELSE IF obj.kind = "boolean" THEN Converted(VText(IF obj.b THEN "true" ELSE "false"))
  ELSE IF obj.kind \in {"undefined", "null"} THEN Converted(VText("null"))
  ELSE IF obj.kind = "date" THEN Converted(VText("\"" \o obj.iso \o "\""))
  ELSE IF obj.kind = "array"
    THEN IF \E i \in DOMAIN obj.items : json(obj.items[i]).failed
         THEN json(obj.items[CHOOSE i \in DOMAIN obj.items :
                               /\ json(obj.items[i]).failed
                               /\ \A j \in 1..(i - 1) : ~json(obj.items[j]).failed])
         ELSE Converted(JsonArray([i \in DOMAIN obj.items |-> json(obj.items[i]).expr]))
  ELSE IF obj.kind = "object"
    THEN IF \E i \in DOMAIN obj.members : json(obj.members[i].value).failed
         THEN json(obj.members[CHOOSE i \in DOMAIN obj.members :
                     /\ json(obj.members[i].value).failed
                     /\ \A j \in 1..(i - 1) : ~json(obj.members[j].value).failed].value)
         ELSE Converted(JsonObject([i \in DOMAIN obj.members |->
                                      [name |-> obj.members[i].name,
                                       value |-> json(obj.members[i].value).expr]]))
  ELSE NotConverted(CouldNotConvert)

\* state.renderTemplate() keeps the buffer, as a bug would write it
ClearTemplateKeep(st) == st

\* state.renderTemplate(): the buffered tokens are returned and the buffer is cleared
RenderTemplate(st) == st.template
ClearTemplate(st) == [st EXCEPT !.template = <<>>]

(***************************************************************************)
(* VObject: a typed value, [type, expr]                                    *)
(***************************************************************************)
VObject(type, expr) == [type |-> type, expr |-> expr]
\* values a program can receive or return that are no VObject
Undefined == [type |-> Scalar("<undefined>"), expr |-> VText("")]
NotAVObject == [type |-> Scalar("<not a VObject>"), expr |-> VText("")]
TheState == [type |-> Scalar("<InterpreterState>"), expr |-> VText("")]
isObject(v) == v.type.Kind \notin {"<undefined>", "<not a VObject>", "<InterpreterState>"}

(***************************************************************************)
(* Statements yielded by a resolver program                                *)
(***************************************************************************)
NoId == ""
Stash(value, id, local) ==
  [kind |-> "stash", value |-> value, id |-> id, local |-> local, dataSource |-> ""]
WriteStmt(value) ==
  [kind |-> "write", value |-> value, id |-> NoId, local |-> FALSE, dataSource |-> ""]
ForLoop(list) ==
  [kind |-> "for", value |-> list, id |-> NoId, local |-> FALSE, dataSource |-> ""]
Call(request, dataSource) ==
  [kind |-> "call", value |-> request, id |-> NoId, local |-> FALSE,
   dataSource |-> dataSource]
GetState ==
  [kind |-> "getState", value |-> Undefined, id |-> NoId, local |-> FALSE, dataSource |-> ""]
Unsupported ==
  [kind |-> "unsupported", value |-> Undefined, id |-> NoId, local |-> FALSE,
   dataSource |-> ""]

\* the shape every call of the model declares as its responseType
ResponseType == Record("Post")

\* the literal a program can use without having received it
Hello == VObject(string, JsonString("hello"))

\* the values a program can use in its next statement: literals and the
\* VObjects sent back to it so far
Available(sentValues) ==
  {Hello} \cup {sentValues[i] : i \in {j \in 1..Len(sentValues) : isObject(sentValues[j])}}

(***************************************************************************)
(* The type specs compiled by Spec                                         *)
(***************************************************************************)
\* resolve: the resolver has a resolve program; auth: it has auth metadata;
\* subscribe: the mutation fields of its subscribe metadata (<<>> when it has none)
Field(name, shape, resolve, auth, subscribe) ==
  [name |-> name, shape |-> shape, resolve |-> resolve, auth |-> auth,
   subscribe |-> subscribe]

\* a type whose FQN and field names hold characters that are no identifier
\* characters; its third field has a resolver without a resolve program
DottedSpec ==
  [type |-> <<"m", "y", ".", "T">>,
   fields |-> <<
     Field(<<"a", "-", "b">>,
           VFunction(<<[name |-> "id", shape |-> string]>>, Record("Post")),
           TRUE, TRUE, <<>>),
     Field(<<"c">>, optional(array(Record("Post"))), TRUE, FALSE, <<"createPost">>),
     Field(<<"d">>, integer, FALSE, TRUE, <<>>)>>]

TypeSpecs == {DottedSpec}

(***************************************************************************)
(* interpret: lowering of one yielded statement                            *)
(***************************************************************************)
field == typeSpec.fields[fieldIdx]

\* the list every for-loop of the model iterates
List == VObject(array(string), VText("$context.source.tags"))

\* what the program of the current field can refer to in its next statement
InScope == Available(sent) \cup {loops[i] : i \in 1..Len(loops)}

\* the VObject the program received last, if any, else the literal
Latest ==
  LET got == {i \in 1..Len(sent) : isObject(sent[i])}
  IN IF got = {} THEN Hello ELSE sent[CHOOSE i \in got : \A j \in got : j <= i]

CanYield == pc = "interpret" /\ field.resolve /\ steps < MaxStmts

\* a thrown error, as a bug would write it (the error is swallowed)
ThrowCaught(msg) == UNCHANGED <<pc, error>>

\* the build is aborted by a thrown error
Throw(msg) == /\ pc' = "failed"
              /\ error' = msg

\* the resumption of the program, as a bug would write it (the value sent back
\* the time before is sent back again)
ResumeStale(stmt, newState, result) ==
  /\ state' = newState
  /\ yielded' = Append(yielded, stmt)
  /\ steps' = steps + 1
  /\ sent' = Append(sent, IF sent = <<>> THEN Undefined ELSE sent[Len(sent)])
  /\ UNCHANGED <<pc, error>>

\* the statement is lowered into newState and result is sent back to the program
Resume(stmt, newState, result) ==
  /\ state' = newState
  /\ yielded' = Append(yielded, stmt)
  /\ steps' = steps + 1
  /\ IF newState.fault # ""
     THEN Throw(newState.fault) /\ sent' = sent
     ELSE /\ sent' = Append(sent, result)
          /\ UNCHANGED <<pc, error>>

\* stashId, as a bug would write it (a local variable is put into the stash)
StashIdShared(st, stmt) ==
  IF stmt.id # NoId THEN stmt.id ELSE "$context.stash." \o NewIdName(st, "var")

\* stashId = stmt.id || `$${stmt.local ? '' : 'context.stash.'}${state.newId('var')}`
StashId(st, stmt) ==
  IF stmt.id # NoId THEN stmt.id
  ELSE "$" \o (IF stmt.local THEN "" ELSE "context.stash.") \o NewIdName(st, "var")

\* state.stash(value, stmt): `#set(${stashId} = ${value})` on a line of its own
StateStash(st, stmt) ==
  LET counted == IF stmt.id # NoId THEN st ELSE NewIdState(st, "var")
  IN WriteLine(Write(counted, <<VText("#set("), VText(StashId(st, stmt)), VText(" = "),
                                stmt.value.expr, VText(")")>>))

InterpretStash ==
  /\ CanYield
  /\ \E stmt \in {Stash(v, NoId, FALSE) : v \in {Hello, Latest}}
                 \cup {Stash(Hello, NoId, TRUE), Stash(Hello, "$custom", FALSE)} :
       Resume(stmt, StateStash(state, stmt),
              VObject(stmt.value.type, VText(StashId(state, stmt))))
  /\ UNCHANGED <<typeSpec, fieldIdx, loops, functions, stageCount, resolvers,
                 constructs, directives, blocks, ifs, schema, ann,
                 earlier, apiCache, runtimeCache>>

InterpretWrite ==
  /\ CanYield
  /\ ifs = <<>>
  /\ \E v \in {Hello, Latest} :
       Resume(WriteStmt(v), Write(state, <<v.expr>>), Undefined)
  /\ UNCHANGED <<typeSpec, fieldIdx, loops, functions, stageCount, resolvers,
                 constructs, directives, blocks, ifs, schema, ann,
                 earlier, apiCache, runtimeCache>>

InterpretGetState ==
  /\ CanYield
  /\ ifs = <<>>
  /\ Resume(GetState, state, TheState)
  /\ UNCHANGED <<typeSpec, fieldIdx, loops, functions, stageCount, resolvers,
                 constructs, directives, blocks, ifs, schema, ann,
                 earlier, apiCache, runtimeCache>>

\* the for-loop statement up to the interpretation of its body
InterpretForLoop ==
  /\ CanYield
  /\ ifs = <<>>
  /\ Len(loops) < MaxLoops
  /\ LET itemId == "$" \o NewIdName(state, "item")
         st1 == Write(NewIdState(state, "item"),
                      <<VConcat(<<VText("#foreach( "), VText(itemId), VText(" in "),
                                  List.expr, VText(")")>>)>>)
         st2 == WriteLine(Indent(st1))
     IN /\ state' = st2
        /\ loops' = Append(loops, VObject(List.type.Items, VText(itemId)))
        /\ yielded' = Append(yielded, ForLoop(List))
        /\ steps' = steps + 1
  /\ UNCHANGED <<typeSpec, fieldIdx, pc, functions, stageCount, sent, resolvers,
                 constructs, directives, blocks, error, ifs, schema, ann,
                 earlier, apiCache, runtimeCache>>

\* the body of the innermost for-loop has completed: the rest of the for-loop branch
ForLoopEnd ==
  /\ pc = "interpret"
  /\ loops # <<>>
  /\ ifs = <<>>
  /\ LET st1 == WriteLine(Write(WriteLine(Unindent(state)), <<VText("#end")>>))
     IN /\ state' = st1
        /\ loops' = SubSeq(loops, 1, Len(loops) - 1)
        /\ IF st1.fault # ""
           THEN Throw(st1.fault) /\ sent' = sent
           ELSE sent' = Append(sent, Undefined) /\ UNCHANGED <<pc, error>>
  /\ UNCHANGED <<typeSpec, fieldIdx, functions, stageCount, yielded, steps, resolvers,
                 constructs, directives, blocks, ifs, schema, ann,
                 earlier, apiCache, runtimeCache>>

\* `${fieldFQN}${stageCount += 1}`, as a bug would write it (the counter is not advanced)
StageNameStale(fqn, count) == fqn \o toString10(count)

\* stageName = `${fieldFQN}${stageCount += 1}`
StageName(fqn, count) == fqn \o toString10(count + 1)

\* the name assigned by the response mapping template of a call, as a bug would write it
ResponseStashNameFixed(name) == "var0"

\* the name assigned by the response mapping template of a call
ResponseStashName(name) == name

\* responseMappingTemplate = `#set($context.stash.${name} = $context.result)\n`
CallResponseTemplate(name) ==
  <<"#set(", "$context.stash." \o ResponseStashName(name), " = ", "$context.result", ")", "\n">>

DataSourceId(stageName) == <<"DataSource(">> \o stageName \o <<")">>

\* the call branch of interpret
LowerCall ==
  /\ CanYield
  /\ \E request \in InScope, dataSource \in {"AMAZON_DYNAMODB"} :
       LET stmt == Call(request, dataSource)
           name == NewIdName(state, "var")
           st1 == Write(NewIdState(state, "var"), <<request.expr>>)
           requestMappingTemplate == RenderTemplate(st1)
           stageName == StageName(fieldFQN(typeSpec.type, field.name), stageCount)
       IN /\ Resume(stmt, ClearTemplate(st1),
                    VObject(ResponseType, VText("$context.stash." \o name)))
          /\ stageCount' = stageCount + 1
          /\ constructs' = Append(constructs, DataSourceId(stageName))
          /\ functions' = Append(functions,
               [name |-> stageName,
                requestMappingTemplate |-> requestMappingTemplate,
                responseMappingTemplate |-> CallResponseTemplate(name),
                dataSourceName |-> stageName,
                dataSourceType |-> dataSource,
                functionVersion |-> "2018-05-29"])
  /\ UNCHANGED <<typeSpec, fieldIdx, loops, resolvers, directives, blocks, ifs, schema, ann,
                 earlier, apiCache, runtimeCache>>

\* a call statement yielded outside every if branch
InterpretCall ==
  /\ ifs = <<>>
  /\ LowerCall

InterpretUnsupported ==
  /\ CanYield
  /\ Throw("unsupported statement type")
  /\ yielded' = Append(yielded, Unsupported)
  /\ steps' = steps + 1
  /\ UNCHANGED <<typeSpec, fieldIdx, state, loops, functions, stageCount, sent,
                 resolvers, constructs, directives, blocks, ifs, schema, ann,
                 earlier, apiCache, runtimeCache>>

(***************************************************************************)
(* if statements: parseIf lowers the branches one after the other, then    *)
(* the if branch of interpret derives the value of the statement           *)
(***************************************************************************)
\* nesting depth of if statements
MaxIfs == 2
\* the condition of every if and else-if branch of the model
Condition == VObject(boolean, VText("$context.source.draft"))

IfStmt ==
  [kind |-> "if", value |-> Condition, id |-> NoId, local |-> FALSE, dataSource |-> ""]

\* a value of integer type a branch can return
One == VObject(integer, VText("1"))

\* what a branch program can return
BranchResults == {Undefined, Hello, One}

\* new VNothing(VExpression.text('null'))
VNothing == VObject(nothing, VText("null"))

\* .map(r => r === undefined ? new VNothing(VExpression.text('null')) : r as VObject)
MapUndefined(values) ==
  [i \in DOMAIN values |-> IF values[i] = Undefined THEN VNothing ELSE values[i]]

\* the duplicate filter, as a bug would write it (nothing is dropped)
FilterDuplicatesNone(values, kept) == kept \o values

\* .filter((r, index, self) =>
\*    self.findIndex(v => VObject.getType(r).equals(VObject.getType(v))) === index):
\* a value is kept when no value before it has an equal type
RECURSIVE FilterDuplicates(_, _)
FilterDuplicates(values, kept) ==
  IF values = <<>> THEN kept
  ELSE FilterDuplicates(Tail(values),
                        IF \E k \in DOMAIN kept : kept[k].type = Head(values).type
                        THEN kept ELSE Append(kept, Head(values)))

\* returnedValues.length === 1 ? returnedValues[0]
\*   : new VUnion(new UnionShape(returnedValues.map(v => VObject.getType(v)), undefined),
\*                VExpression.text(returnId))
ReturnValue(returnedValues, returnId) ==
  IF Len(returnedValues) = 1 THEN returnedValues[1]
  ELSE VObject(union([i \in DOMAIN returnedValues |-> returnedValues[i].type], NoFQN),
               VText(returnId))

\* the innermost open if statement
Innermost(stack) == stack[Len(stack)]

\* '#if(', condition, ')' and the start of the block of the first branch
IfOpen(st) ==
  WriteLine(Indent(Write(st, <<VText("#if("), Condition.expr, VText(")")>>)))

\* the end of a branch: `#set(${callback} = value)` when the branch returned a
\* value, then the end of its block
BranchClose(st, returnId, value) ==
  WriteLine(Unindent(
    IF value = Undefined THEN st
    ELSE Write(st, <<VText("#set("), VText(returnId), VText(" = "), value.expr,
                     VText(")")>>)))

\* '#elseif(', condition, ')' or '#{else}', and the start of the branch's block
BranchOpen(st, isElse) ==
  WriteLine(Indent(
    IF isElse THEN Write(st, <<VText("#{else}")>>)
    ELSE Write(st, <<VText("#elseif("), Condition.expr, VText(")")>>)))

\* an if statement is yielded: parseIf starts to lower its first branch
InterpretIf ==
  /\ CanYield
  /\ Len(ifs) < MaxIfs
  /\ state' = IfOpen(NewIdState(state, "local"))
  /\ ifs' = Append(ifs, [returnId |-> "$" \o NewIdName(state, "local"),
                         values |-> <<>>, else |-> FALSE])
  /\ yielded' = Append(yielded, IfStmt)
  /\ steps' = steps + 1
  /\ UNCHANGED <<typeSpec, fieldIdx, pc, loops, functions, stageCount, sent, resolvers,
                 constructs, directives, blocks, error, schema, ann,
                 earlier, apiCache, runtimeCache>>

\* the program of a branch completes and the next else-if or else branch is lowered
BranchEnd ==
  /\ pc = "interpret"
  /\ ifs # <<>>
  /\ ~Innermost(ifs).else
  /\ steps < MaxStmts
  /\ \E value \in BranchResults, isElse \in BOOLEAN :
       /\ state' = BranchOpen(BranchClose(state, Innermost(ifs).returnId, value), isElse)
       /\ ifs' = [ifs EXCEPT ![Len(ifs)] =
                    [@ EXCEPT !.values = Append(@, value), !.else = isElse]]
  /\ steps' = steps + 1
  /\ UNCHANGED <<typeSpec, fieldIdx, pc, loops, functions, stageCount, sent, yielded,
                 resolvers, constructs, directives, blocks, error, schema, ann,
                 earlier, apiCache, runtimeCache>>

\* a call statement yielded inside a branch, as a bug would write it (the call is
\* lowered like a call outside every branch)
IfCallLowered ==
  /\ ifs # <<>>
  /\ LowerCall

\* a call statement is yielded inside a branch:
\* throw new Error(`Calls to services are not supported within an If branch.`)
IfCall ==
  /\ CanYield
  /\ ifs # <<>>
  /\ Throw("Calls to services are not supported within an If branch.")
  /\ yielded' = Append(yielded, Call(Latest, "AMAZON_DYNAMODB"))
  /\ steps' = steps + 1
  /\ UNCHANGED <<typeSpec, fieldIdx, state, loops, functions, stageCount, sent,
                 resolvers, constructs, directives, blocks, ifs, schema, ann,
                 earlier, apiCache, runtimeCache>>

\* allUndefined, as a bug would write it (undefined values are counted too)
AllUndefinedEmpty(branchYieldValues) == Len(branchYieldValues) = 0

\* allUndefined = branchYieldValues.filter(v => v !== undefined).length === 0
AllUndefined(branchYieldValues) ==
  Len(SelectSeq(branchYieldValues, LAMBDA v : v # Undefined)) = 0

\* the last branch completes: the if branch of interpret derives the value of the
\* statement from the values the branches returned and sends it back
IfEnd ==
  /\ pc = "interpret"
  /\ ifs # <<>>
  /\ \E value \in BranchResults :
       LET branchYieldValues == Append(Innermost(ifs).values, value)
           allUndefined == AllUndefined(branchYieldValues)
           returnValue ==
             ReturnValue(FilterDuplicates(MapUndefined(branchYieldValues), <<>>),
                         Innermost(ifs).returnId)
           parsed == WriteLine(Write(BranchClose(state, Innermost(ifs).returnId, value),
                                     <<VText("#end")>>))
           stmt == Stash(returnValue, NoId, FALSE)
       IN /\ ifs' = SubSeq(ifs, 1, Len(ifs) - 1)
          /\ IF allUndefined
             THEN /\ state' = parsed
                  /\ sent' = Append(sent, VNothing)
             ELSE /\ state' = StateStash(parsed, stmt)
                  /\ sent' = Append(sent, VObject(returnValue.type,
                                                  VText(StashId(parsed, stmt))))
  /\ UNCHANGED <<typeSpec, fieldIdx, pc, loops, functions, stageCount, yielded, steps,
                 resolvers, constructs, directives, blocks, error, schema, ann,
                 earlier, apiCache, runtimeCache>>

(***************************************************************************)
(* generateTypeSignature                                                   *)
(***************************************************************************)
\* index of the first failed entry of results, 0 when there is none
FirstFailed(results) ==
  IF \A i \in DOMAIN results : ~results[i].failed THEN 0
  ELSE CHOOSE i \in DOMAIN results :
         results[i].failed /\ \A j \in 1..(i - 1) : ~results[j].failed

\* `${argName}: ${getTypeAnnotation(argShape)}` of every argument of a function field
ArgAnnotations(shape) ==
  IF isFunctionShape(shape)
  THEN [i \in DOMAIN shape.args |-> getTypeAnnotation(shape.args[i].shape)]
  ELSE <<>>

\* the signature of one field from its evaluated annotations: the first
\* annotation that throws decides the failure
SignatureOf(name, shape, args, type, fieldDirectives) ==
  [failed |-> FirstFailed(args) # 0 \/ type.failed,
   message |-> IF FirstFailed(args) # 0 THEN args[FirstFailed(args)].message
               ELSE type.message,
   name |-> name,
   args |-> [i \in DOMAIN args |->
               [name |-> shape.args[i].name, annotation |-> args[i].tokens]],
   annotation |-> type.tokens,
   directives |-> fieldDirectives]

\* the signature of one field: its argument and type annotations and directives
FieldSignature(name, shape, fieldDirectives) ==
  SignatureOf(name, shape, ArgAnnotations(shape),
              getTypeAnnotation(IF isFunctionShape(shape) THEN shape.returns ELSE shape),
              fieldDirectives)

\* `type ${typeSpec.type.FQN} {\n${fields}\n}`, or the failure of the first field
\* whose annotation throws
TypeBlock(fqn, sigs) ==
  [failed |-> FirstFailed(sigs) # 0,
   message |-> IF FirstFailed(sigs) # 0 THEN sigs[FirstFailed(sigs)].message ELSE "",
   block |-> [decl |-> "type", name |-> fqn, members |-> sigs]]

\* generateTypeSignature(typeSpec, directives); fieldDirectives[i] are the
\* directives of field i
generateTypeSignature(fqn, fields, fieldDirectives) ==
  TypeBlock(fqn,
            [i \in DOMAIN fields |->
               FieldSignature(fields[i].name, fields[i].shape,
                              IF i \in DOMAIN fieldDirectives THEN fieldDirectives[i]
                              ELSE <<>>)])

(***************************************************************************)
(* interpretResolverPipeline: directives and resolver assembly of a field  *)
(***************************************************************************)
RECURSIVE JoinComma(_)
JoinComma(names) ==
  IF names = <<>> THEN ""
  ELSE IF Len(names) = 1 THEN "\"" \o names[1] \o "\""
  ELSE "\"" \o names[1] \o "\"," \o JoinComma(Tail(names))

\* directives[fieldName]: the auth directives, then the @aws_subscribe directive
FieldDirectives(f) ==
  (IF f.auth THEN <<"@aws_iam">> ELSE <<>>)
  \o (IF f.subscribe # <<>>
      THEN <<"@aws_subscribe(mutations:[" \o JoinComma(f.subscribe) \o "])">>
      ELSE <<>>)

NoDataSource == <<>>

\* '$util.toJson(', result, ')'
ToJson(result) == <<VText("$util.toJson("), result.expr, VText(")")>>

\* the resolver kind chosen for a field with two or more functions, as a bug would write it
PipelineKindUnit == "UNIT"

\* config.kind = 'PIPELINE'
PipelineKind == "PIPELINE"

FunctionId(fqn, i) == <<"Function(">> \o fqn \o <<", ">> \o toString10(i) \o <<")">>
ResolveId(fqn) == <<"Resolve(">> \o fqn \o <<")">>

(***************************************************************************)
(* cachingConfig of the CfnResolver                                        *)
(***************************************************************************)
\* '$context.identity' and '$context.arguments.', character by character
IdentityPrefix ==
  <<"$", "c", "o", "n", "t", "e", "x", "t", ".",
    "i", "d", "e", "n", "t", "i", "t", "y">>
ArgumentsPrefix ==
  <<"$", "c", "o", "n", "t", "e", "x", "t", ".",
    "a", "r", "g", "u", "m", "e", "n", "t", "s", ".">>

\* String.prototype.startsWith
startsWith(k, prefix) ==
  Len(prefix) <= Len(k) /\ SubSeq(k, 1, Len(prefix)) = prefix

\* the key mapping, as a bug would write it (every key is taken for an argument)
NormalizeKeyAlways(k) == ArgumentsPrefix \o k

\* k.startsWith('$context.identity') ? k : `$context.arguments.${k}`
NormalizeKey(k) ==
  IF startsWith(k, IdentityPrefix) THEN k ELSE ArgumentsPrefix \o k

\* a resolver without cache metadata, a descriptor without keys, and no
\* cachingConfig
NoCache == [defined |-> FALSE]
NoKeys == [defined |-> FALSE]

\* a list of caching keys
KeysOf(list) == [defined |-> TRUE, list |-> list]
NoCachingConfig == [defined |-> FALSE]

\* a cache descriptor: { keys, ttl }
Cache(keys, ttl) == [defined |-> TRUE, keys |-> keys, ttl |-> ttl]

\* const {auth, cache, subscribe} = resolver
CacheOf(f) == IF "cache" \in DOMAIN f THEN f.cache ELSE NoCache

\* the cachingConfig of a CfnResolver
cachingConfig(hasApiCache, cache) ==
  LET config ==
        IF hasApiCache /\ cache # NoCache
        THEN [defined |-> TRUE, cachingKeys |-> cache.keys, ttl |-> cache.ttl]
        ELSE NoCachingConfig
  IN IF config # NoCachingConfig
     THEN [config EXCEPT !.cachingKeys =
             IF @ = NoKeys THEN NoKeys
             ELSE KeysOf([i \in DOMAIN @.list |-> NormalizeKey(@.list[i])])]
     ELSE NoCachingConfig

\* the outcome of a field: the CfnResolver props when one was created, and what
\* the field's program did
Outcome(created, config, result) ==
  [field |-> fieldIdx, created |-> created, config |-> config, result |-> result,
   yielded |-> yielded, sent |-> sent, functions |-> functions,
   trailing |-> state.template]

Config(kind, request, response, dataSourceName, pipeline) ==
  [kind |-> kind, requestMappingTemplate |-> request,
   responseMappingTemplate |-> response, dataSourceName |-> dataSourceName,
   pipelineConfig |-> pipeline,
   typeName |-> typeSpec.type, fieldName |-> field.name,
   cachingConfig |-> cachingConfig(apiCache, CacheOf(field))]

\* the program of the current field has completed with result
Completed(result) ==
  /\ pc = "interpret"
  /\ loops = <<>>
  /\ ifs = <<>>
  /\ result \in (IF field.resolve THEN {Undefined, NotAVObject, Latest} ELSE {Undefined})

\* the rest of the loop body of interpretResolverPipeline: the next field is
\* started, or the directives are returned and generateTypeSignature runs
Finish(outcome, made, finalState) ==
  /\ resolvers' = Append(resolvers, outcome)
  /\ constructs' = constructs \o made
  /\ IF fieldIdx < Len(typeSpec.fields)
     THEN /\ fieldIdx' = fieldIdx + 1
          /\ state' = NewInterpreterState
          /\ functions' = <<>>
          /\ stageCount' = 0
          /\ sent' = <<>>
          /\ yielded' = <<>>
          /\ directives' = Append(directives, FieldDirectives(typeSpec.fields[fieldIdx + 1]))
          /\ UNCHANGED <<pc, blocks, error>>
     ELSE LET sig == generateTypeSignature(
                       StrOf(typeSpec.type),
                       [i \in 1..Len(typeSpec.fields) |->
                          [name |-> StrOf(typeSpec.fields[i].name),
                           shape |-> typeSpec.fields[i].shape]],
                       directives)
          IN /\ state' = finalState
             /\ IF sig.failed
                THEN Throw(sig.message) /\ blocks' = blocks
                ELSE /\ pc' = "built"
                     /\ blocks' = Append(blocks, sig.block)
                     /\ error' = error
             /\ UNCHANGED <<fieldIdx, functions, stageCount, sent, yielded, directives>>
  /\ UNCHANGED <<typeSpec, loops, steps, ifs, schema, ann,
                 earlier, apiCache, runtimeCache>>

\* result !== undefined && !VObject.isObject(result)
ResultNotVObject ==
  /\ Completed(NotAVObject)
  /\ Throw("result must be undefined or a VObject")
  /\ UNCHANGED <<typeSpec, fieldIdx, state, loops, functions, stageCount, sent,
                 yielded, steps, resolvers, constructs, directives, blocks, ifs, schema, ann,
                 earlier, apiCache, runtimeCache>>

\* the test for "no resolver required", as a bug would write it (always a resolver)
NoResolverNeededNever(fns, result, template) == FALSE

\* functions.length === 0 && result === undefined && initState.template.length === 0
NoResolverNeeded(fns, result, template) ==
  Len(fns) = 0 /\ result = Undefined /\ Len(template) = 0

\* we don't need a resolver pipeline
NoResolverRequired ==
  /\ Completed(Undefined)
  /\ NoResolverNeeded(functions, Undefined, state.template)
  /\ Finish(Outcome(FALSE, Config("UNIT", <<>>, <<>>, NoDataSource, <<>>), Undefined),
            <<>>, state)

\* the request of the NONE data source, as a bug would write it (the result is left out)
NoneRequestNoPayload(result) ==
  JsonObject(<<[name |-> "version", value |-> JsonString("2017-02-28")]>>)

\* VExpression.json({ version: '2017-02-28',
\*   payload: result === undefined ? {} : VExpression.concat('$util.toJson(', result, ')') })
NoneRequest(result) ==
  JsonObject(<<[name |-> "version", value |-> JsonString("2017-02-28")],
               [name |-> "payload",
                value |-> IF result = Undefined THEN JsonObject(<<>>)
                          ELSE VConcat(ToJson(result))]>>)

\* functions.length === 0: a UNIT resolver on the NONE data source
AssembleNone ==
  \E result \in {Undefined, Latest} :
    /\ Completed(result)
    /\ functions = <<>>
    /\ ~NoResolverNeeded(functions, result, state.template)
    /\ LET st1 == Write(state, <<NoneRequest(result)>>)
           request == RenderTemplate(st1)
           st2 == IF result = Undefined THEN ClearTemplate(st1)
                  ELSE Write(ClearTemplate(st1), ToJson(result))
           response == IF result = Undefined THEN <<"null">> ELSE RenderTemplate(st2)
           st3 == IF result = Undefined THEN st2 ELSE ClearTemplate(st2)
       IN Finish(Outcome(TRUE, Config("UNIT", request, response, <<"NONE">>, <<>>), result),
                 <<<<"None">>, ResolveId(fieldFQN(typeSpec.type, field.name))>>, st3)

\* what is written after the last call: the JSON of the result, or null
Trailer(result) == IF result = Undefined THEN <<VText("null")>> ELSE ToJson(result)

\* the response of a one-stage resolver, as a bug would write it (the stage's
\* assignment is dropped)
UnitResponseTrailingOnly(fn, trailing) == trailing

\* functions[0].responseMappingTemplate + '\n' + initState.renderTemplate()
UnitResponse(fn, trailing) == fn.responseMappingTemplate \o <<"\n">> \o trailing

\* functions.length === 1: a UNIT resolver on the stage's own data source
AssembleUnit ==
  \E result \in {Undefined, Latest} :
    /\ Completed(result)
    /\ Len(functions) = 1
    /\ LET st1 == Write(state, Trailer(result))
           response == UnitResponse(functions[1], RenderTemplate(st1))
       IN Finish(Outcome(TRUE,
                         Config("UNIT", functions[1].requestMappingTemplate, response,
                                functions[1].dataSourceName, <<>>),
                         result),
                 <<ResolveId(fieldFQN(typeSpec.type, field.name))>>, ClearTemplate(st1))

\* two or more functions: a PIPELINE resolver
AssemblePipeline ==
  \E result \in {Undefined, Latest} :
    /\ Completed(result)
    /\ Len(functions) >= 2
    /\ LET st1 == Write(state, Trailer(result))
           fqn == fieldFQN(typeSpec.type, field.name)
           pipeline == [i \in 1..Len(functions) |->
                          [id |-> FunctionId(fqn, i - 1),
                           props |-> [functions[i] EXCEPT
                                        !.responseMappingTemplate = @ \o <<"\n", "null">>]]]
       IN Finish(Outcome(TRUE,
                         Config(PipelineKind, <<"null">>, RenderTemplate(st1),
                                NoDataSource, pipeline),
                         result),
                 [i \in 1..Len(functions) |-> FunctionId(fqn, i - 1)] \o <<ResolveId(fqn)>>,
                 ClearTemplate(st1))

(***************************************************************************)
(* Spec: interpretResolverPipeline followed by generateTypeSignature       *)
(***************************************************************************)
Idle == [phase |-> "idle"]

Init ==
  /\ typeSpec \in TypeSpecs
  /\ fieldIdx = 1
  /\ pc = "interpret"
  /\ state = NewInterpreterState
  /\ loops = <<>>
  /\ ifs = <<>>
  /\ functions = <<>>
  /\ stageCount = 0
  /\ sent = <<>>
  /\ yielded = <<>>
  /\ steps = 0
  /\ resolvers = <<>>
  /\ constructs = <<>>
  /\ directives = <<FieldDirectives(typeSpec.fields[1])>>
  /\ blocks = <<>>
  /\ error = ""
  /\ earlier = NoBuild
  /\ apiCache = FALSE
  /\ runtimeCache = NewCache
  /\ schema = Idle
  /\ ann = Idle

Next ==
  \/ InterpretStash
  \/ InterpretWrite
  \/ InterpretGetState
  \/ InterpretForLoop
  \/ ForLoopEnd
  \/ InterpretCall
  \/ InterpretUnsupported
  \/ ResultNotVObject
  \/ NoResolverRequired
  \/ AssembleNone
  \/ AssembleUnit
  \/ AssemblePipeline

Spec == Init /\ [][Next]_vars

(***************************************************************************)
(* IfSpec: the interpreter on a one-field type whose program may also      *)
(* yield if statements                                                     *)
(***************************************************************************)
PostSpec ==
  [type |-> <<"P", "o", "s", "t">>,
   fields |-> <<Field(<<"t", "i", "t", "l", "e">>, string, TRUE, FALSE, <<>>)>>]

IfInit ==
  /\ typeSpec = PostSpec
  /\ fieldIdx = 1
  /\ pc = "interpret"
  /\ state = NewInterpreterState
  /\ loops = <<>>
  /\ ifs = <<>>
  /\ functions = <<>>
  /\ stageCount = 0
  /\ sent = <<>>
  /\ yielded = <<>>
  /\ steps = 0
  /\ resolvers = <<>>
  /\ constructs = <<>>
  /\ directives = <<FieldDirectives(typeSpec.fields[1])>>
  /\ blocks = <<>>
  /\ error = ""
  /\ earlier = NoBuild
  /\ apiCache = FALSE
  /\ runtimeCache = NewCache
  /\ schema = Idle
  /\ ann = Idle

IfNext ==
  \/ InterpretIf
  \/ BranchEnd
  \/ IfCall
  \/ IfEnd
  \/ InterpretStash
  \/ InterpretCall
  \/ InterpretUnsupported
  \/ ResultNotVObject
  \/ NoResolverRequired
  \/ AssembleNone
  \/ AssembleUnit
  \/ AssemblePipeline

IfSpec == IfInit /\ [][IfNext]_vars

(***************************************************************************)
(* RenderSpec: the interpreter on a program of for-loops and of write      *)
(* statements whose expressions are formatting directives, blocks and      *)
(* JSON literals                                                           *)
(***************************************************************************)
\* nesting depth of blocks and JSON literals in a written expression
MaxNest == 2

\* the expressions of exprs, and a block and a JSON object holding a JSON array
\* around each of them
Nested(exprs) ==
  exprs
  \cup {VBlock(e) : e \in exprs}
  \cup {JsonObject(<<[name |-> "items", value |-> JsonArray(<<JsonString("a"), e>>)]>>) :
          e \in exprs}

\* text nested in blocks and JSON literals up to the given depth
Literals[depth \in 0..MaxNest] ==
  IF depth = 0 THEN {VText("x")} ELSE Nested(Literals[depth - 1])

\* what a write statement of RenderSpec writes
Expressions == Literals[MaxNest] \cup {VIndent, VUnindent}

\* a write statement whose expression is one of Expressions is yielded
WriteExpression ==
  /\ CanYield
  /\ ifs = <<>>
  /\ \E expr \in Expressions :
       Resume(WriteStmt(VObject(any, expr)), Write(state, <<expr>>), Undefined)
  /\ UNCHANGED <<typeSpec, fieldIdx, loops, functions, stageCount, resolvers,
                 constructs, directives, blocks, ifs, schema, ann,
                 earlier, apiCache, runtimeCache>>

RenderNext ==
  \/ WriteExpression
  \/ InterpretForLoop
  \/ ForLoopEnd

RenderSpec == IfInit /\ [][RenderNext]_vars

(***************************************************************************)
(* TwiceSpec: the build closure runs, and then runs a second time on the   *)
(* same type spec and the same programs                                    *)
(***************************************************************************)
\* what a build has produced when it ends
BuildOutput ==
  [done |-> TRUE, pc |-> pc, resolvers |-> resolvers, constructs |-> constructs,
   directives |-> directives, blocks |-> blocks, error |-> error,
   yielded |-> yielded, sent |-> sent, functions |-> functions,
   trailing |-> state.template]

\* the start of a second build, as a bug would write it: the interpreter state
\* and the stage counter are kept in a place that outlives a build
RebuildKeepingState ==
  /\ pc \in {"built", "failed"}
  /\ ~earlier.done
  /\ earlier' = BuildOutput
  /\ fieldIdx' = 1
  /\ pc' = "interpret"
  /\ state' = ClearTemplate(state)
  /\ stageCount' = stageCount
  /\ functions' = <<>>
  /\ sent' = <<>>
  /\ yielded' = <<>>
  /\ steps' = 0
  /\ resolvers' = <<>>
  /\ constructs' = <<>>
  /\ directives' = <<FieldDirectives(typeSpec.fields[1])>>
  /\ blocks' = <<>>
  /\ error' = ""
  /\ UNCHANGED <<typeSpec, loops, ifs, schema, ann, apiCache, runtimeCache>>

\* the build closure runs again: `blocks`, `seenDataTypes`, `directives`,
\* `functions`, `stageCount` and `initState` are locals of the closure and of
\* the loop body, created anew
Rebuild ==
  /\ pc \in {"built", "failed"}
  /\ ~earlier.done
  /\ earlier' = BuildOutput
  /\ fieldIdx' = 1
  /\ pc' = "interpret"
  /\ state' = NewInterpreterState
  /\ stageCount' = 0
  /\ functions' = <<>>
  /\ sent' = <<>>
  /\ yielded' = <<>>
  /\ steps' = 0
  /\ resolvers' = <<>>
  /\ constructs' = <<>>
  /\ directives' = <<FieldDirectives(typeSpec.fields[1])>>
  /\ blocks' = <<>>
  /\ error' = ""
  /\ UNCHANGED <<typeSpec, loops, ifs, schema, ann, apiCache, runtimeCache>>

\* the statements the program of field i yielded in the earlier build
ProgramOf(i) ==
  IF i <= Len(earlier.resolvers) THEN earlier.resolvers[i].yielded ELSE earlier.yielded

\* the programs of the second build are the programs of the first: a step of the
\* second build yields the statement, or completes with the result, that the
\* same program yielded or completed with in the first build
SameProgram ==
  earlier.done =>
    IF Len(resolvers') > Len(resolvers)
    THEN /\ fieldIdx <= Len(earlier.resolvers)
         /\ yielded = earlier.resolvers[fieldIdx].yielded
         /\ resolvers'[Len(resolvers')].result = earlier.resolvers[fieldIdx].result
    ELSE IF yielded' # yielded
    THEN /\ Len(yielded') <= Len(ProgramOf(fieldIdx))
         /\ yielded' = SubSeq(ProgramOf(fieldIdx), 1, Len(yielded'))
    ELSE /\ fieldIdx > Len(earlier.resolvers)
         /\ yielded = earlier.yielded

TwiceNext ==
  \/ InterpretStash /\ SameProgram
  \/ InterpretCall /\ SameProgram
  \/ InterpretUnsupported /\ SameProgram
  \/ ResultNotVObject /\ SameProgram
  \/ NoResolverRequired /\ SameProgram
  \/ AssembleNone /\ SameProgram
  \/ AssembleUnit /\ SameProgram
  \/ AssemblePipeline /\ SameProgram
  \/ Rebuild

TwiceSpec == Init /\ [][TwiceNext]_vars

(***************************************************************************)
(* CacheSpec: the resolvers of a type whose first field has cache          *)
(* metadata, with and without an API cache                                 *)
(***************************************************************************)
\* the longest list of caching keys of a cache descriptor
MaxKeys == 2

\* caching keys: identity keys, argument names, and keys that share only a
\* part of the identity prefix
Keys ==
  {IdentityPrefix \o <<".", "s", "u", "b">>,
   IdentityPrefix,
   IdentityPrefix \o <<"I", "d">>,
   SubSeq(IdentityPrefix, 1, Len(IdentityPrefix) - 1),
   <<"i", "d">>}

KeyLists == {KeysOf(list) : list \in UNION {[1..n -> Keys] : n \in 0..MaxKeys}}

Caches ==
  {NoCache} \cup {Cache(keys, ttl) : keys \in KeyLists \cup {NoKeys}, ttl \in {0, 60}}

\* a field with cache metadata
CachedField(name, shape, resolve, cache) ==
  [name |-> name, shape |-> shape, resolve |-> resolve, auth |-> FALSE,
   subscribe |-> <<>>, cache |-> cache]

CachedSpecs ==
  {[type |-> <<"Q", "u", "e", "r", "y">>,
    fields |-> <<
      CachedField(<<"p", "o", "s", "t">>,
                  VFunction(<<[name |-> "id", shape |-> string]>>, Record("Post")),
                  TRUE, cache),
      Field(<<"p", "i", "n", "g">>, string, TRUE, FALSE, <<>>)>>] : cache \in Caches}

CacheInit ==
  /\ typeSpec \in CachedSpecs
  /\ apiCache \in BOOLEAN
  /\ runtimeCache = NewCache
  /\ fieldIdx = 1
  /\ pc = "interpret"
  /\ state = NewInterpreterState
  /\ loops = <<>>
  /\ ifs = <<>>
  /\ functions = <<>>
  /\ stageCount = 0
  /\ sent = <<>>
  /\ yielded = <<>>
  /\ steps = 0
  /\ resolvers = <<>>
  /\ constructs = <<>>
  /\ directives = <<FieldDirectives(typeSpec.fields[1])>>
  /\ blocks = <<>>
  /\ error = ""
  /\ earlier = NoBuild
  /\ schema = Idle
  /\ ann = Idle

CacheNext ==
  \/ InterpretCall
  \/ NoResolverRequired
  \/ AssembleNone
  \/ AssembleUnit
  \/ AssemblePipeline

CacheSpec == CacheInit /\ [][CacheNext]_vars

(***************************************************************************)
(* MapSpec: a type whose field has a map in its type, in the type of its   *)
(* argument or in its return type                                          *)
(***************************************************************************)
\* map shapes without a graphqlType, a map shape with one, and a scalar
Innermosts ==
  {map(string), optional(map(string)), map(Record(NoFQN)),
   withGraphqlType(map(string), "AWSJSON"), string}

\* the shape, and arrays and sets of it, with and without a graphqlType
Collections(shape) ==
  {shape, array(shape), set(shape), optional(array(shape)),
   withGraphqlType(array(shape), "[AWSJSON]")}

\* the shapes used in a field: up to two collections around an innermost shape
UsedShapes ==
  UNION {Collections(inner) : inner \in UNION {Collections(s) : s \in Innermosts}}

\* a field of the shape, a field with an argument of the shape, and a field
\* that returns the shape
FieldShapes(shape) ==
  {shape,
   VFunction(<<[name |-> "key", shape |-> shape]>>, string),
   VFunction(<<[name |-> "key", shape |-> string]>>, shape)}

MapSpecs ==
  {[type |-> <<"B", "a", "g">>,
    fields |-> <<Field(<<"i", "t", "e", "m", "s">>, fieldShape, TRUE, FALSE, <<>>)>>] :
     fieldShape \in UNION {FieldShapes(shape) : shape \in UsedShapes}}

MapInit ==
  /\ typeSpec \in MapSpecs
  /\ apiCache = FALSE
  /\ runtimeCache = NewCache
  /\ fieldIdx = 1
  /\ pc = "interpret"
  /\ state = NewInterpreterState
  /\ loops = <<>>
  /\ ifs = <<>>
  /\ functions = <<>>
  /\ stageCount = 0
  /\ sent = <<>>
  /\ yielded = <<>>
  /\ steps = 0
  /\ resolvers = <<>>
  /\ constructs = <<>>
  /\ directives = <<FieldDirectives(typeSpec.fields[1])>>
  /\ blocks = <<>>
  /\ error = ""
  /\ earlier = NoBuild
  /\ schema = Idle
  /\ ann = Idle

MapNext ==
  \/ InterpretCall
  \/ NoResolverRequired
  \/ AssembleNone
  \/ AssembleUnit
  \/ AssemblePipeline

MapSpec == MapInit /\ [][MapNext]_vars

(***************************************************************************)
(* JsonSpec: a program that writes VExpression.json of a value             *)
(***************************************************************************)
\* nesting depth of arrays and objects in a value
MaxJsonDepth == 2

\* values that are neither arrays nor objects
JsonScalars ==
  {LExpression(VText("$context.source.id")), LObject(Hello),
   LString("a"), LString("say \"hi\""),
   LNumber(0), LNumber(12), LNumber(0 - 7),
   LBoolean(TRUE), LBoolean(FALSE), LNull, LUndefined,
   LDate("2020-01-02T03:04:05.000Z"), LFunction, LSymbol}

\* the second items of the arrays and objects with two items
SecondItems == {LString("b"), LNull, LFunction}

\* the values, and the arrays and objects of none, one and two of them
Composed(values) ==
  values
  \cup {LArray(<<>>), LRecord(<<>>)}
  \cup {LArray(<<v>>) : v \in values}
  \cup {LArray(<<v, w>>) : v \in values, w \in SecondItems}
  \cup {LRecord(<<[name |-> "k", value |-> v]>>) : v \in values}
  \cup {LRecord(<<[name |-> "k", value |-> v], [name |-> "m", value |-> w]>>) :
          v \in values, w \in SecondItems}

JsonValues[depth \in 0..MaxJsonDepth] ==
  IF depth = 0 THEN JsonScalars ELSE Composed(JsonValues[depth - 1])

\* the write statement of the expression json returned for the value `literal`
JsonWriteStmt(literal, expr) ==
  [kind |-> "write", value |-> VObject(any, expr), id |-> NoId, local |-> FALSE,
   dataSource |-> "", literal |-> literal]

\* the program calls VExpression.json(obj) and yields a write statement of the
\* expression; an error thrown by json leaves the program and ends the build
WriteJson ==
  /\ CanYield
  /\ yielded = <<>>
  /\ \E obj \in JsonValues[MaxJsonDepth] :
       IF json(obj).failed
       THEN /\ Throw(json(obj).message)
            /\ steps' = steps + 1
            /\ UNCHANGED <<state, sent, yielded>>
       ELSE Resume(JsonWriteStmt(obj, json(obj).expr),
                   Write(state, <<json(obj).expr>>), Undefined)
  /\ UNCHANGED <<typeSpec, fieldIdx, loops, functions, stageCount, resolvers,
                 constructs, directives, blocks, ifs, schema, ann,
                 earlier, apiCache, runtimeCache>>

JsonNext ==
  \/ WriteJson
  \/ NoResolverRequired
  \/ AssembleNone

JsonSpec == IfInit /\ [][JsonNext]_vars

(***************************************************************************)
(* NamesSpec: a build over several record types.  parseType runs           *)
(* interpretResolverPipeline on one record after the other; the constructs *)
(* of all of them are created in the one scope of the build.               *)
(***************************************************************************)
\* record types interpreted in one build after the type Post
MaxTypes == 2

\* a type with the one field fieldName, resolved by a program
NamedSpec(typeName, fieldName) ==
  [type |-> typeName, fields |-> <<Field(fieldName, string, TRUE, FALSE, <<>>)>>]

\* the record types a build can hold
NamedSpecs ==
  {NamedSpec(<<"A">>, <<"b", "_", "c">>),
   NamedSpec(<<"A", "_", "b">>, <<"c">>),
   NamedSpec(<<"B">>, <<"c">>),
   NamedSpec(<<"m", "y", ".", "T">>, <<"x">>),
   NamedSpec(<<"m", "y", "_", "T">>, <<"x">>)}

\* parseType reaches a record not seen before:
\* interpretResolverPipeline(typeSpec) starts on its first field
NextType ==
  /\ pc = "built"
  /\ Len(blocks) <= MaxTypes
  /\ \E next \in NamedSpecs :
       /\ \A i \in DOMAIN blocks : blocks[i].name # StrOf(next.type)
       /\ typeSpec' = next
       /\ directives' = <<FieldDirectives(next.fields[1])>>
  /\ fieldIdx' = 1
  /\ pc' = "interpret"
  /\ state' = NewInterpreterState
  /\ functions' = <<>>
  /\ stageCount' = 0
  /\ sent' = <<>>
  /\ yielded' = <<>>
  /\ UNCHANGED <<loops, ifs, steps, resolvers, constructs, blocks, error, schema, ann,
                 earlier, apiCache, runtimeCache>>

NamesNext ==
  \/ InterpretCall
  \/ NoResolverRequired
  \/ AssembleNone
  \/ AssembleUnit
  \/ AssemblePipeline
  \/ NextType

NamesSpec == IfInit /\ [][NamesNext]_vars

(***************************************************************************)
(* Properties of Spec                                                      *)
(***************************************************************************)
\* the call statements among stmts, in yield order
CallsOf(stmts) == SelectSeq(stmts, LAMBDA stmt : stmt.kind = "call")

IsPrefix(a, b) == Len(a) <= Len(b) /\ SubSeq(b, 1, Len(a)) = a
IsSuffix(a, b) == Len(a) <= Len(b) /\ SubSeq(b, Len(b) - Len(a) + 1, Len(b)) = a

\* the text a template's tokens join to
Text(tokens) == StrOf(tokens)

\* the text an expression renders to at indentation depth 0
TextOf(expr) == Text(visit(expr, NewInterpreterState).template)

\* C1: every field whose program yielded N >= 2 call statements, whatever else it
\* yielded in between, is assembled as a PIPELINE resolver whose function list
\* has exactly N entries, the k-th of which carries the k-th call's request and
\* data source.
C1_PipelinePerCall ==
  \A i \in DOMAIN resolvers :
    LET o == resolvers[i]
        calls == CallsOf(o.yielded)
        pipeline == o.config.pipelineConfig
    IN Len(calls) >= 2 =>
         /\ o.created
         /\ o.config.kind = "PIPELINE"
         /\ Len(pipeline) = Len(calls)
         /\ \A k \in DOMAIN calls :
              /\ IsSuffix(visit(calls[k].value.expr, NewInterpreterState).template,
                          pipeline[k].props.requestMappingTemplate)
              /\ pipeline[k].props.dataSourceType = calls[k].dataSource

\* a field with two calls of different requests and another statement between them
C1_Witness ==
  \E i \in DOMAIN resolvers :
    LET o == resolvers[i]
        calls == CallsOf(o.yielded)
    IN /\ Len(calls) = 2
       /\ Len(o.yielded) = 3
       /\ o.yielded[2].kind # "call"
       /\ calls[1].value # calls[2].value
       /\ o.config.kind = "PIPELINE"

\* the names a field of at most MaxStmts + 1 statements can be handed
VarNames == {"var" \o ToString(n) : n \in 1..(MaxStmts + 1)}

TrailerText(result) ==
  IF result = Undefined THEN "null" ELSE "$util.toJson(" \o TextOf(result.expr) \o ")"

C4_NoneDataSource ==
  \A i \in DOMAIN resolvers :
    LET o == resolvers[i]
        payload == IF o.result = Undefined THEN "{\n    \n  }"
                   ELSE "$util.toJson(" \o TextOf(o.result.expr) \o ")"
    IN (CallsOf(o.yielded) = <<>> /\ (o.result # Undefined \/ o.trailing # <<>>)) =>
         /\ o.created
         /\ o.config.kind = "UNIT"
         /\ o.config.pipelineConfig = <<>>
         /\ o.config.dataSourceName = <<"NONE">>
         /\ Text(o.config.requestMappingTemplate)
              = Text(o.trailing)
                \o "{\n  \"version\": \"2017-02-28\",\n  \"payload\": " \o payload \o "\n}"
         /\ Text(o.config.responseMappingTemplate) = TrailerText(o.result)

\* a field that returns a literal without a call, and one that only wrote text
C4_Witness ==
  /\ \E i \in DOMAIN resolvers :
       /\ resolvers[i].yielded = <<>>
       /\ resolvers[i].result = Hello
       /\ Text(resolvers[i].config.responseMappingTemplate) = "$util.toJson(\"hello\")"
  /\ \E i \in DOMAIN resolvers :
       /\ CallsOf(resolvers[i].yielded) = <<>>
       /\ resolvers[i].result = Undefined
       /\ resolvers[i].trailing # <<>>
       /\ resolvers[i].config.dataSourceName = <<"NONE">>

\* the directives the type spec declares for its i-th field
DeclaredDirectives(i) ==
  (IF typeSpec.fields[i].auth THEN <<"@aws_iam">> ELSE <<>>)
  \o (IF typeSpec.fields[i].subscribe # <<>>
      THEN <<"@aws_subscribe(mutations:[\"" \o typeSpec.fields[i].subscribe[1] \o "\"])">>
      ELSE <<>>)

\* C5: a field whose program yielded no call statement, returned nothing and
\* left the buffer empty gets no resolver and no error: its directives are
\* kept, the fields after it are compiled, and the type's SDL block still holds
\* its signature with its directives.
C5_NoResolver ==
  \A i \in DOMAIN resolvers :
    LET o == resolvers[i]
        fqn == fieldFQN(typeSpec.type, typeSpec.fields[o.field].name)
    IN (CallsOf(o.yielded) = <<>> /\ o.result = Undefined /\ o.trailing = <<>>) =>
         /\ ~o.created
         /\ \A c \in DOMAIN constructs : constructs[c] # ResolveId(fqn)
         /\ directives[o.field] = DeclaredDirectives(o.field)
         /\ o.field < Len(typeSpec.fields) => fieldIdx > o.field
         /\ error # "" => fieldIdx > o.field
         /\ (o.field = Len(typeSpec.fields) \/ pc = "built") =>
              /\ pc = "built"
              /\ Len(blocks) = 1
              /\ blocks[1].decl = "type"
              /\ blocks[1].members[o.field].name = StrOf(typeSpec.fields[o.field].name)
              /\ blocks[1].members[o.field].directives = DeclaredDirectives(o.field)

\* the first field needed no resolver, a later one got one, and the type's block
\* was emitted
C5_Witness ==
  /\ pc = "built"
  /\ Len(resolvers) = 3
  /\ ~resolvers[1].created
  /\ resolvers[1].yielded # <<>>
  /\ resolvers[2].created
  /\ ~resolvers[3].created
  /\ blocks[1].members[1].directives = <<"@aws_iam">>

\* `<TypeFQN>_<fieldName>` of the i-th field with the characters outside
\* [_0-9A-Za-z] replaced by `_`
SanitizedName(i) == IF i = 1 THEN "my_T_a_b" ELSE IF i = 2 THEN "my_T_c" ELSE "my_T_d"

\* C6: the k-th call statement of a field produces a stage, a data source and a
\* pipeline function named by the sanitized `<TypeFQN>_<fieldName>` followed by
\* the decimal k.
C6_StageNames ==
  /\ \A k \in DOMAIN functions :
       /\ StrOf(functions[k].name) = SanitizedName(fieldIdx) \o ToString(k)
       /\ functions[k].dataSourceName = functions[k].name
       /\ \E c \in DOMAIN constructs :
            StrOf(constructs[c]) = "DataSource(" \o SanitizedName(fieldIdx) \o ToString(k) \o ")"
  /\ \A i \in DOMAIN resolvers :
       LET o == resolvers[i]
       IN /\ Len(o.functions) = Len(CallsOf(o.yielded))
          /\ \A k \in DOMAIN o.functions :
               StrOf(o.functions[k].name) = SanitizedName(o.field) \o ToString(k)
          /\ \A k \in DOMAIN o.config.pipelineConfig :
               StrOf(o.config.pipelineConfig[k].props.name)
                 = SanitizedName(o.field) \o ToString(k)

\* a field whose FQN holds `.` and `-` was assembled from two calls
C6_Witness ==
  \E i \in DOMAIN resolvers :
    /\ resolvers[i].field = 1
    /\ Len(resolvers[i].config.pipelineConfig) = 2
    /\ StrOf(resolvers[i].config.pipelineConfig[1].props.name) = "my_T_a_b1"
    /\ StrOf(resolvers[i].config.pipelineConfig[2].props.name) = "my_T_a_b2"

(***************************************************************************)
(* AnnSpec: a shape is built up and getTypeAnnotation is applied to it     *)
(***************************************************************************)
\* number of collection or union wrappers around the innermost shape
MaxDepth == 2

\* the innermost shapes
BaseShapes ==
  {string, boolean, number, integer, timestamp, any, binary, nothing,
   Record("Post"), Record(NoFQN), Enum("Color"), Enum(NoFQN),
   union(<<Record("Post"), Record("User")>>, "SearchResult"),
   union(<<Record("Post"), Record("User")>>, NoFQN)}

\* the resolver compiler is not running
ResolverIdle ==
  /\ typeSpec = DottedSpec
  /\ fieldIdx = 1
  /\ pc = "idle"
  /\ state = NewInterpreterState
  /\ loops = <<>>
  /\ ifs = <<>>
  /\ functions = <<>>
  /\ stageCount = 0
  /\ sent = <<>>
  /\ yielded = <<>>
  /\ steps = 0
  /\ resolvers = <<>>
  /\ constructs = <<>>
  /\ directives = <<>>
  /\ blocks = <<>>
  /\ error = ""
  /\ earlier = NoBuild
  /\ apiCache = FALSE
  /\ runtimeCache = NewCache

Building(shape, depth) ==
  [phase |-> "shape", shape |-> shape, depth |-> depth, result |-> Annotation(<<>>)]

AnnInit ==
  /\ ResolverIdle
  /\ schema = Idle
  /\ \E shape \in BaseShapes : ann = Building(shape, 0)

\* optional(shape)
MakeOptional ==
  /\ ann.phase = "shape"
  /\ ~isOptional(ann.shape)
  /\ ann' = Building(optional(ann.shape), ann.depth)
  /\ UNCHANGED <<resolverVars, schema>>

\* array(shape), set(shape) or map(shape)
MakeCollection ==
  /\ ann.phase = "shape"
  /\ ann.depth < MaxDepth
  /\ \E wrapped \in {array(ann.shape), set(ann.shape), map(ann.shape)} :
       ann' = Building(wrapped, ann.depth + 1)
  /\ UNCHANGED <<resolverVars, schema>>

\* the nullable union of the shape and nothing, in either order
MakeNullableUnion ==
  /\ ann.phase = "shape"
  /\ ann.depth < MaxDepth
  /\ \E items \in {<<ann.shape, nothing>>, <<nothing, ann.shape>>} :
       ann' = Building(optional(union(items, NoFQN)), ann.depth + 1)
  /\ UNCHANGED <<resolverVars, schema>>

\* the shape is decorated with a graphqlType
OverrideGraphqlType ==
  /\ ann.phase = "shape"
  /\ ann.shape.graphqlType = NoGraphqlType
  /\ ann' = Building(withGraphqlType(ann.shape, "ID"), ann.depth)
  /\ UNCHANGED <<resolverVars, schema>>

\* getTypeAnnotation(shape)
Annotate ==
  /\ ann.phase = "shape"
  /\ ann' = [ann EXCEPT !.phase = "done", !.result = getTypeAnnotation(ann.shape)]
  /\ UNCHANGED <<resolverVars, schema>>

AnnNext ==
  \/ MakeOptional
  \/ MakeCollection
  \/ MakeNullableUnion
  \/ OverrideGraphqlType
  \/ Annotate

AnnSpec == AnnInit /\ [][AnnNext]_vars

(***************************************************************************)
(* Properties of AnnSpec                                                   *)
(***************************************************************************)
\* a shape built from the GraphQL scalars, named records and arrays of these,
\* without graphqlType decorations
RECURSIVE PlainShape(_)
PlainShape(shape) ==
  /\ shape.graphqlType = NoGraphqlType
  /\ \/ shape.Kind \in {"stringShape", "boolShape", "numberShape", "integerShape",
                        "timestampShape", "anyShape"}
     \/ shape.Kind = "recordShape" /\ shape.FQN # NoFQN
     \/ shape.Kind = "arrayShape" /\ PlainShape(shape.Items)

\* tokens without the `!` an annotation of a non-optional shape ends with
Unsuffixed(shape, tokens) ==
  IF shape.nullable THEN tokens ELSE SubSeq(tokens, 1, Len(tokens) - 1)

\* tokens without their first and last token
Inside(tokens) == SubSeq(tokens, 2, Len(tokens) - 1)

\* tokens end with `!` exactly if the shape is not optional, and so do the
\* tokens between the brackets for the item shape of an array
RECURSIVE WellSuffixed(_, _)
WellSuffixed(shape, tokens) ==
  /\ tokens # <<>>
  /\ shape.nullable <=> tokens[Len(tokens)] # "!"
  /\ shape.Kind = "arrayShape" =>
       /\ Len(Unsuffixed(shape, tokens)) >= 3
       /\ Head(Unsuffixed(shape, tokens)) = "["
       /\ Unsuffixed(shape, tokens)[Len(Unsuffixed(shape, tokens))] = "]"
       /\ WellSuffixed(shape.Items, Inside(Unsuffixed(shape, tokens)))

\* C8: for every shape built from scalars, records and arrays, the annotation of
\* the shape ends with `!` exactly if the shape is not optional, and for an
\* array the same holds of the item annotation between the brackets,
\* independently of the array's own suffix.
C8_Nullability ==
  (ann.phase = "done" /\ PlainShape(ann.shape)) =>
    /\ ~ann.result.failed
    /\ WellSuffixed(ann.shape, ann.result.tokens)

\* an optional array of non-optional items and a non-optional array of optional items
C8_Witness ==
  /\ ann.phase = "done"
  /\ ann.shape \in {optional(array(string)), array(optional(Record("Post")))}
  /\ ann.result.tokens \in {<<"[", "String", "!", "]">>, <<"[", "Post", "]", "!">>}

\* the shape an annotation names: the first alternative that is not nothing
\* for a nullable union, the shape itself otherwise
Named(shape) ==
  IF shape.nullable /\ shape.Kind = "unionShape"
  THEN shape.UnionItems[IF shape.UnionItems[1].Kind = "nothingShape" THEN 2 ELSE 1]
  ELSE shape

\* the type-name table; <<>> where the table has no entry
RECURSIVE TableAnnotation(_)
TableName(shape, kind) ==
  CASE shape.graphqlType # NoGraphqlType -> <<shape.graphqlType>>
    [] OTHER ->
       CASE kind = "stringShape" -> <<"String">>
         [] kind = "boolShape" -> <<"Boolean">>
         [] kind = "integerShape" -> <<"Int">>
         [] kind = "numberShape" -> <<"Float">>
         [] kind = "timestampShape" -> <<"AWSDateTime">>
         [] kind = "anyShape" -> <<"AWSJSON">>
         [] kind \in {"arrayShape", "setShape"} ->
              <<"[">> \o TableAnnotation(Named(shape).Items) \o <<"]">>
         [] kind \in {"recordShape", "unionShape", "enumShape"} -> <<Named(shape).FQN>>
         [] OTHER -> <<>>
TableAnnotation(shape) ==
  TableName(shape, Named(shape).Kind) \o (IF shape.nullable THEN <<>> ELSE <<"!">>)

Member(name, shape) == [name |-> name, shape |-> shape]

\* the TypeIndex (self.types): for every record its Members and the fields its
\* TypeSpec adds to them
Types ==
  [Post |-> [Members |-> <<Member("id", string), Member("author", Record("User"))>>,
             added |-> <<Member("comments", array(Record("Comment"))),
                         Member("relatedPosts", array(Record("Post")))>>],
   User |-> [Members |-> <<Member("name", string),
                           Member("posts", array(Record("Post")))>>,
             added |-> <<>>],
   Comment |-> [Members |-> <<Member("text", optional(string))>>, added |-> <<>>],
   PostInput |-> [Members |-> <<Member("title", string), Member("meta", Record("Meta")),
                                Member("color", Enum("Color"))>>,
                  added |-> <<>>],
   Meta |-> [Members |-> <<Member("tag", string), Member("at", timestamp)>>,
             added |-> <<>>],
   Bag |-> [Members |-> <<Member("items", map(string))>>, added |-> <<>>],
   Loose |-> [Members |-> <<Member("inner", Record(NoFQN))>>, added |-> <<>>]]

\* shape.Values of the enums
EnumValues == [Color |-> <<"RED", "GREEN">>]

SearchResult == union(<<Record("Post"), Record("User")>>, "SearchResult")

\* the shapes a root field can have or return
OutShapes ==
  {string, Record("Post"), array(Record("User")), set(Record("Comment")),
   optional(union(<<Record("Comment"), nothing>>, NoFQN)), SearchResult,
   Enum("Color"), Record(NoFQN), Record("Missing"),
   union(<<Record("Post"), Record(NoFQN)>>, "Mixed"),
   union(<<Record("Post"), Record("User")>>, NoFQN),
   union(<<Record("Comment"), union(<<Record("Post"), Record("User")>>, NoFQN)>>, "Either"),
   optional(union(<<Record("Comment"), nothing>>, "MaybeComment"))}

\* the shapes an argument of a root field can have
InShapes ==
  {string, Record("PostInput"), Record("Post"), array(Record("Meta")),
   optional(Record("Meta")), Enum("Color"), Record(NoFQN), SearchResult,
   optional(union(<<nothing, Record("Meta")>>, NoFQN)), Record("Bag"),
   Record("Loose")}

\* the root type specs an Api can declare
RootSpecs ==
  [query : {<<Member("a", out), Member("b", VFunction(<<Member("input", in)>>, returns))>> :
              out \in OutShapes, in \in InShapes,
              returns \in {string, Record("Post"), SearchResult}},
   mutation : {<<>>, <<Member("updatePost",
                              VFunction(<<Member("input", Record("Post"))>>, Record("Post")))>>},
   subscription : {<<>>, <<Member("onPost", optional(Record("Post")))>>}]

RootNames == <<"Query", "Mutation", "Subscription">>
RootFields(api, i) ==
  IF i = 1 THEN api.query ELSE IF i = 2 THEN api.mutation ELSE api.subscription

\* isUseful(spec): the spec has at least one field
isUseful(fields) == Len(fields) > 0

NoTypeSpec == [found |-> FALSE, fields |-> <<>>]

\* self.types[FQN]: the fields of the TypeSpec of a record, if the index has it
typeSpecOf(api, fqn) ==
  IF \E i \in DOMAIN RootNames : RootNames[i] = fqn
    THEN [found |-> TRUE,
          fields |-> RootFields(api, CHOOSE i \in DOMAIN RootNames : RootNames[i] = fqn)]
  ELSE IF fqn \in DOMAIN Types
    THEN [found |-> TRUE, fields |-> Types[fqn].Members \o Types[fqn].added]
  ELSE NoTypeSpec

\* a call still to be made
Task(op, shape) == [op |-> op, shape |-> shape]
CallEach(op, shapes) == [i \in DOMAIN shapes |-> Task(op, shapes[i])]
ShapesOf(members) == [i \in DOMAIN members |-> members[i].shape]

Block(decl, name, members) == [decl |-> decl, name |-> name, members |-> members]

SchemaInit ==
  /\ ResolverIdle
  /\ ann = Idle
  /\ \E api \in RootSpecs :
       schema = [phase |-> "parse", api |-> api, root |-> 1, stack |-> <<>>,
                 seenDataTypes |-> {}, blocks |-> <<>>, error |-> ""]

\* an error is thrown: the synthesis is aborted
SchemaThrow(msg) ==
  schema' = [schema EXCEPT !.phase = "failed", !.error = msg, !.stack = <<>>]

\* the call on top of the stack returns after pushing block (if any), marking
\* fqn (if any) as seen and making the calls of tasks
SchemaReturn(seen, emitted, tasks) ==
  schema' = [schema EXCEPT !.stack = tasks \o Tail(@),
                           !.seenDataTypes = @ \cup seen,
                           !.blocks = @ \o emitted]

Top == schema.stack[1]
Running(op) == schema.phase = "parse" /\ schema.stack # <<>> /\ Top.op = op

\* if (isUseful(self.query)) parseType(self.query.type), and the same for the
\* mutation and the subscription root
ParseRoot ==
  /\ schema.phase = "parse"
  /\ schema.stack = <<>>
  /\ schema.root <= Len(RootNames)
  /\ schema' = [schema EXCEPT
       !.root = @ + 1,
       !.stack = IF isUseful(RootFields(schema.api, schema.root))
                 THEN <<Task("parseType", Record(RootNames[schema.root]))>>
                 ELSE <<>>]
  /\ UNCHANGED <<resolverVars, ann>>

\* return api
SchemaDone ==
  /\ schema.phase = "parse"
  /\ schema.stack = <<>>
  /\ schema.root > Len(RootNames)
  /\ schema' = [schema EXCEPT !.phase = "done"]
  /\ UNCHANGED <<resolverVars, ann>>

UnnamedRecord == "un-named record types are not supported"
UnnamedUnion == "un-named union types are not supported"
UnnamedEnum == "un-named enum types are not supported"
UnnamedInput == "un-named input type"
UnionAsInput == "union types not supported as input types"
TypeNotFound(fqn) == "could not find type " \o fqn \o " in the TypeIndex"

\* the FQNs of the union's alternatives that have one:
\* shape.Items.map(i => i.FQN!).filter(i => i !== undefined)
UnionMembers(items) ==
  [i \in 1..Len(SelectSeq(items, LAMBDA item : item.FQN # NoFQN)) |->
     [name |-> SelectSeq(items, LAMBDA item : item.FQN # NoFQN)[i].FQN, annotation |-> <<>>]]

\* Object.values(shape.Values) of an enum
EnumMembers(fqn) ==
  IF fqn \in DOMAIN EnumValues
  THEN [i \in DOMAIN EnumValues[fqn] |-> [name |-> EnumValues[fqn][i], annotation |-> <<>>]]
  ELSE <<>>

\* parseType of a record: the type block of its TypeSpec, then its fields
ParseRecordType(shape) ==
  IF shape.FQN = NoFQN THEN SchemaThrow(UnnamedRecord)
  ELSE IF shape.FQN \in schema.seenDataTypes THEN SchemaReturn({}, <<>>, <<>>)
  ELSE IF ~typeSpecOf(schema.api, shape.FQN).found THEN SchemaThrow(TypeNotFound(shape.FQN))
  ELSE IF generateTypeSignature(shape.FQN, typeSpecOf(schema.api, shape.FQN).fields, <<>>).failed
    THEN SchemaThrow(
           generateTypeSignature(shape.FQN, typeSpecOf(schema.api, shape.FQN).fields,
                                 <<>>).message)
  ELSE SchemaReturn({shape.FQN},
         <<generateTypeSignature(shape.FQN, typeSpecOf(schema.api, shape.FQN).fields,
                                 <<>>).block>>,
         CallEach("parseType", ShapesOf(typeSpecOf(schema.api, shape.FQN).fields)))

\* parseType of an enum: its enum block, once
ParseEnumType(shape) ==
  IF shape.FQN = NoFQN THEN SchemaThrow(UnnamedEnum)
  ELSE IF shape.FQN \in schema.seenDataTypes THEN SchemaReturn({}, <<>>, <<>>)
  ELSE SchemaReturn({shape.FQN}, <<Block("enum", shape.FQN, EnumMembers(shape.FQN))>>, <<>>)

\* one call of parseType, up to the calls it makes
ParseTypeStep ==
  /\ Running("parseType")
  /\ IF isArrayShape(Top.shape)
       THEN SchemaReturn({}, <<>>, <<Task("parseType", Top.shape.Items)>>)
     ELSE IF isRecordShape(Top.shape) THEN ParseRecordType(Top.shape)
     ELSE IF isUnionShape(Top.shape)
       THEN SchemaReturn({}, <<>>, CallEach("parseType", Top.shape.UnionItems)
                                    \o <<Task("unionBlock", Top.shape)>>)
     ELSE IF isFunctionShape(Top.shape)
       THEN SchemaReturn({}, <<>>, CallEach("parseInputType", ShapesOf(Top.shape.args))
                                    \o <<Task("parseType", Top.shape.returns)>>)
     ELSE IF isEnumShape(Top.shape) THEN ParseEnumType(Top.shape)
     ELSE SchemaReturn({}, <<>>, <<>>)
  /\ UNCHANGED <<resolverVars, ann>>

\* parseType of a union after its alternatives have been parsed
UnionBlockStep ==
  /\ Running("unionBlock")
  /\ IF isOptional(Top.shape) THEN SchemaReturn({}, <<>>, <<>>)
     ELSE IF Top.shape.FQN = NoFQN THEN SchemaThrow(UnnamedUnion)
     ELSE IF Top.shape.FQN \in schema.seenDataTypes THEN SchemaReturn({}, <<>>, <<>>)
     ELSE SchemaReturn({Top.shape.FQN},
            <<Block("union", Top.shape.FQN, UnionMembers(Top.shape.UnionItems))>>, <<>>)
  /\ UNCHANGED <<resolverVars, ann>>

\* the members parseInputType does not recurse into, as a bug would write them
InputMembersNone(fqn) == <<>>

\* Object.values(shape.Members) of an input record
InputMembers(fqn) == IF fqn \in DOMAIN Types THEN Types[fqn].Members ELSE <<>>

\* one call of parseInputType, up to the calls it makes
ParseInputTypeStep ==
  /\ Running("parseInputType")
  /\ IF isRecordShape(Top.shape) THEN
       IF Top.shape.FQN = NoFQN THEN SchemaThrow(UnnamedInput)
       ELSE IF Top.shape.FQN \in schema.seenDataTypes THEN SchemaReturn({}, <<>>, <<>>)
       ELSE SchemaReturn({Top.shape.FQN}, <<>>,
              CallEach("parseInputType", ShapesOf(InputMembers(Top.shape.FQN)))
              \o <<Task("inputBlock", Top.shape)>>)
     ELSE IF isCollectionShape(Top.shape)
       THEN SchemaReturn({}, <<>>, <<Task("parseInputType", Top.shape.Items)>>)
     ELSE IF isUnionShape(Top.shape) THEN
       IF ~isOptional(Top.shape) THEN SchemaThrow(UnionAsInput)
       ELSE SchemaReturn({}, <<>>, CallEach("parseInputType", Top.shape.UnionItems))
     ELSE IF isEnumShape(Top.shape)
       THEN SchemaReturn({}, <<>>, <<Task("parseType", Top.shape)>>)
     ELSE SchemaReturn({}, <<>>, <<>>)
  /\ UNCHANGED <<resolverVars, ann>>

\* `  ${fieldName}: ${getTypeAnnotation(fieldShape)}` of every member
MemberAnnotations(members) ==
  [i \in DOMAIN members |-> getTypeAnnotation(members[i].shape)]

\* `input ${shape.FQN} {...}`, or the failure of the first member whose annotation throws
InputBlock(fqn, members, annotations) ==
  [failed |-> FirstFailed(annotations) # 0,
   message |-> IF FirstFailed(annotations) # 0
               THEN annotations[FirstFailed(annotations)].message ELSE "",
   block |-> Block("input", fqn,
                   [i \in DOMAIN members |->
                      [name |-> members[i].name, annotation |-> annotations[i].tokens]])]

\* parseInputType of a record after its members have been parsed
InputBlockStep ==
  /\ Running("inputBlock")
  /\ IF InputBlock(Top.shape.FQN, Types[Top.shape.FQN].Members,
                   MemberAnnotations(Types[Top.shape.FQN].Members)).failed
     THEN SchemaThrow(InputBlock(Top.shape.FQN, Types[Top.shape.FQN].Members,
                                 MemberAnnotations(Types[Top.shape.FQN].Members)).message)
     ELSE SchemaReturn({}, <<InputBlock(Top.shape.FQN, Types[Top.shape.FQN].Members,
                                        MemberAnnotations(Types[Top.shape.FQN].Members)).block>>,
                       <<>>)
  /\ UNCHANGED <<resolverVars, ann>>

SchemaNext ==
  \/ ParseRoot
  \/ ParseTypeStep
  \/ UnionBlockStep
  \/ ParseInputTypeStep
  \/ InputBlockStep
  \/ SchemaDone

SchemaSpec == SchemaInit /\ [][SchemaNext]_vars

(***************************************************************************)
(* Cache (src/core/cache.ts)                                               *)
(***************************************************************************)
\* getOrCreate calls made on one Cache
MaxCalls == 3

\* the value `undefined`
undefined == [kind |-> "undefined"]
\* the object the n-th invocation of a factory created
Instance(key, n) == [kind |-> "instance", key |-> key, serial |-> n]
\* a member the object literal {} inherits from Object.prototype
Inherited(name) == [kind |-> "inherited", key |-> name]
PrototypeMembers == {"constructor", "toString", "valueOf", "hasOwnProperty"}

\* tryGet(name), as a bug would write it: own properties only
tryGetOwn(cache, name) == IF name \in DOMAIN cache THEN cache[name] ELSE undefined

\* tryGet(name): this.cache[name], a property read on a plain object
tryGet(cache, name) ==
  IF name \in DOMAIN cache THEN cache[name]
  ELSE IF name \in PrototypeMembers THEN Inherited(name)
  ELSE undefined

\* has(key): this.cache[key] !== undefined
has(cache, key) == tryGet(cache, key) # undefined

AlreadyContains == "cache already contains key"
NoEntry == "cache has no entry for"

\* what a method call left behind: the cache, the error thrown, the value returned
CacheOutcome(cache, threw, value) == [cache |-> cache, threw |-> threw, value |-> value]

\* insert(key, value)
insert(cache, key, value) ==
  IF has(cache, key) THEN CacheOutcome(cache, AlreadyContains, undefined)
  ELSE CacheOutcome([k \in DOMAIN cache \cup {key} |-> IF k = key THEN value ELSE cache[k]],
               "", undefined)

\* get(key), as a bug would write it: undefined is handed out
getUnchecked(cache, key) == CacheOutcome(cache, "", tryGet(cache, key))

\* get(key)
get(cache, key) ==
  LET v == tryGet(cache, key)
  IN IF v = undefined THEN CacheOutcome(cache, NoEntry, undefined) ELSE CacheOutcome(cache, "", v)

\* getOrCreate(key, fac), as a bug would write it: fac runs on every call
getOrCreateAlways(cache, key, made) == CacheOutcome(cache, "", made)

\* getOrCreate(key, fac); `made` is what fac() returns if it is invoked
getOrCreate(cache, key, made) ==
  LET inserted == IF ~has(cache, key) THEN insert(cache, key, made)
                  ELSE CacheOutcome(cache, "", undefined)
  IN IF inserted.threw # "" THEN inserted ELSE get(inserted.cache, key)

\* the keys of the clients cached by the runtime, and one every object inherits
CacheKeys == {"aws:sns", "aws:sqs", "constructor"}
\* the factories of the callers create an object (() => new AWS.SNS());
\* the signature fac: () => T allows one that returns undefined
Factories == {"object", "undefined"}

\* invocations of factories recorded in calls
Invocations(calls) == Len(SelectSeq(calls, LAMBDA call : call.invoked))

\* one getOrCreate(key, fac) call, from its first line to its return or throw
GetOrCreate ==
  /\ Len(runtimeCache.calls) < MaxCalls
  /\ \E key \in CacheKeys, fac \in Factories :
       LET invoked == ~has(runtimeCache.cache, key)
           made == IF fac = "object"
                   THEN Instance(key, Invocations(runtimeCache.calls) + 1)
                   ELSE undefined
           done == getOrCreate(runtimeCache.cache, key, made)
       IN runtimeCache' =
            [cache |-> done.cache,
             calls |-> Append(runtimeCache.calls,
                              [key |-> key, fac |-> fac, invoked |-> invoked,
                               made |-> made, threw |-> done.threw,
                               returned |-> done.value])]
  /\ UNCHANGED <<buildVars, schema, ann>>

MemoInit ==
  /\ ResolverIdle
  /\ schema = Idle
  /\ ann = Idle

MemoNext == GetOrCreate

MemoSpec == MemoInit /\ [][MemoNext]_vars

(***************************************************************************)
(* Properties of SchemaSpec                                                *)
(***************************************************************************)
\* the records, enums and non-optional unions a shape in an output ("out") or
\* argument ("in") position refers to, as <<FQN, position>> pairs
RECURSIVE Refs(_, _)
RefsOfAll(shapes, side) == UNION {Refs(shapes[i], side) : i \in DOMAIN shapes}
Refs(shape, side) ==
  CASE shape.Kind \in {"recordShape", "enumShape"} -> {<<shape.FQN, side>>}
    [] shape.Kind \in {"arrayShape", "setShape", "mapShape"} -> Refs(shape.Items, side)
    [] shape.Kind = "unionShape" ->
         (IF shape.nullable THEN {} ELSE {<<shape.FQN, side>>})
         \cup RefsOfAll(shape.UnionItems, side)
    [] shape.Kind = "functionShape" ->
         RefsOfAll(ShapesOf(shape.args), "in") \cup Refs(shape.returns, "out")
    [] OTHER -> {}

\* the shapes a reached type refers to: the fields of its TypeSpec when it is
\* an output type, its Members when it is an argument type
ShapesReached(api, ref) ==
  IF ref[2] = "out" THEN ShapesOf(typeSpecOf(api, ref[1]).fields)
  ELSE IF ref[1] \in DOMAIN Types THEN ShapesOf(Types[ref[1]].Members)
  ELSE <<>>

Expand(api, refs) ==
  refs \cup UNION {RefsOfAll(ShapesReached(api, ref), ref[2]) : ref \in refs}

RECURSIVE Closure(_, _)
Closure(api, refs) ==
  IF Expand(api, refs) = refs THEN refs ELSE Closure(api, Expand(api, refs))

\* the FQNs reachable from the roots that have fields
ReachableFQNs(api) ==
  {ref[1] : ref \in
     Closure(api, {<<RootNames[i], "out">> :
                     i \in {j \in DOMAIN RootNames : isUseful(RootFields(api, j))}})}
  \ {NoFQN}

BlocksNamed(fqn) == {i \in DOMAIN schema.blocks : schema.blocks[i].name = fqn}

\* C7: when the synthesis has completed, the block list holds exactly one block
\* for every FQN of a record, enum or non-optional union reachable from the roots.
C7_OneBlockPerFQN ==
  schema.phase = "done" =>
    \A fqn \in ReachableFQNs(schema.api) : Cardinality(BlocksNamed(fqn)) = 1

\* no FQN ever has more than one block
AtMostOneBlockPerFQN ==
  \A i, j \in DOMAIN schema.blocks :
    schema.blocks[i].name = schema.blocks[j].name => i = j

\* a record reachable from the roots has no block although the synthesis completed
C7_MissingBlock ==
  /\ schema.phase = "done"
  /\ \E fqn \in ReachableFQNs(schema.api) : BlocksNamed(fqn) = {}

\* the shape of the argument of the root field Query.b
ArgShape == schema.api.query[2].shape.args[1].shape

\* string, number, boolean or timestamp
IsScalarShape(shape) ==
  shape.Kind \in {"stringShape", "numberShape", "integerShape", "boolShape", "timestampShape"}

HasNonScalarMember(fqn) ==
  \E i \in DOMAIN Types[fqn].Members : ~IsScalarShape(Types[fqn].Members[i].shape)

InputBlocksNamed(fqn) ==
  {i \in BlocksNamed(fqn) : schema.blocks[i].decl = "input"}

InputDepth == 4

\* an argument shape parseInputType or the annotation of an input member
\* rejects: an un-named record, a non-optional union or a map, at any depth
RECURSIVE InputFails(_, _)
AnyInputFails(shapes, depth) == \E i \in DOMAIN shapes : InputFails(shapes[i], depth)
InputFails(shape, depth) ==
  CASE shape.Kind = "recordShape" ->
         \/ shape.FQN = NoFQN
         \/ /\ depth > 0
            /\ shape.FQN \in DOMAIN Types
            /\ AnyInputFails(ShapesOf(Types[shape.FQN].Members), depth - 1)
    [] shape.Kind = "mapShape" -> TRUE
    [] shape.Kind \in {"arrayShape", "setShape"} -> InputFails(shape.Items, depth)
    [] shape.Kind = "unionShape" ->
         ~shape.nullable \/ AnyInputFails(shape.UnionItems, depth)
    [] OTHER -> FALSE

\* the root field shapes the output side of the synthesis rejects
BadOutShapes ==
  {Record(NoFQN), Record("Missing"), union(<<Record("Post"), Record(NoFQN)>>, "Mixed"),
   union(<<Record("Post"), Record("User")>>, NoFQN),
   union(<<Record("Comment"), union(<<Record("Post"), Record("User")>>, NoFQN)>>, "Either")}

\* the annotation of a member that is a named record
RecordAnnotation(shape) == <<shape.FQN>> \o (IF shape.nullable THEN <<>> ELSE <<"!">>)

CallsInBranchMessage == "Calls to services are not supported within an If branch."

\* C11: whenever a call statement is yielded while an if statement is open, at
\* whatever nesting depth and in whichever branch, the build is aborted with an
\* error and the step registers no function, no stage number and no construct,
\* creates no resolver and leaves the template buffer as it was (nothing is
\* flushed as a request template).
C11_CallInBranchAborts ==
  [][(/\ ifs # <<>>
      /\ Len(yielded') = Len(yielded) + 1
      /\ yielded'[Len(yielded')].kind = "call")
     => (/\ pc' = "failed"
         /\ error' = CallsInBranchMessage
         /\ functions' = functions
         /\ stageCount' = stageCount
         /\ constructs' = constructs
         /\ resolvers' = resolvers
         /\ state' = state)]_vars

\* a call was yielded inside an if nested in the first branch of another if; no
\* stage was registered and no resolver was created
C11_Witness ==
  /\ pc = "failed"
  /\ error = CallsInBranchMessage
  /\ Len(ifs) = 2
  /\ Len(yielded) = 3
  /\ yielded[3].kind = "call"
  /\ functions = <<>>
  /\ resolvers = <<>>

(***************************************************************************)
(* Properties of Spec: errors, identifiers and the resume protocol         *)
(***************************************************************************)
\* the statements of stmts that are of no recognised kind
UnsupportedOf(stmts) == SelectSeq(stmts, LAMBDA stmt : stmt.kind = "unsupported")

\* C12: once the program of a field has yielded a value of no recognised
\* statement kind, the build is in its failed state with the error of the
\* lowering: resolvers exist only for the fields before that field, neither that
\* field nor a later one has a Resolve construct, no SDL block is emitted, and
\* no step is taken from the failed state; no assembled field ever yielded such
\* a value.
C12_UnsupportedAborts ==
  /\ [](/\ UnsupportedOf(yielded) # <<>> =>
             /\ pc = "failed"
             /\ error = "unsupported statement type"
             /\ Len(resolvers) = fieldIdx - 1
             /\ \A i \in fieldIdx..Len(typeSpec.fields) :
                  \A c \in DOMAIN constructs :
                    constructs[c] # ResolveId(fieldFQN(typeSpec.type,
                                                       typeSpec.fields[i].name))
             /\ blocks = <<>>
        /\ \A i \in DOMAIN resolvers : UnsupportedOf(resolvers[i].yielded) = <<>>)
  /\ [][pc # "failed"]_vars

\* the second field yielded an unrecognised value after the first field had been
\* given a resolver, and after a statement of its own had been lowered
C12_Witness ==
  /\ pc = "failed"
  /\ error = "unsupported statement type"
  /\ fieldIdx = 2
  /\ Len(resolvers) = 1
  /\ resolvers[1].created
  /\ Len(yielded) = 2
  /\ yielded[2].kind = "unsupported"

\* the statements of stmts that are handed a fresh `var` identifier: calls, and
\* stashes without an identifier of their own
Allocating(stmts) ==
  SelectSeq(stmts, LAMBDA stmt : \/ stmt.kind = "call"
                                 \/ stmt.kind = "stash" /\ stmt.id = NoId)

\* the references that name the n-th `var` identifier of a field
VarRefs(n) ==
  {VText("$context.stash.var" \o ToString(n)), VText("$var" \o ToString(n))}

\* C13: within one field the fresh-identifier counter has handed out exactly as
\* many `var` identifiers as stash and call statements asked for; the n-th of
\* them, whether a stash or a call asked, is var<n>, so each differs from all
\* earlier ones; and when the next field is started the counter is back at 0,
\* so that field's first identifier is var1 again.
C13_FreshIds ==
  /\ [](state.ids["var"] = Len(Allocating(yielded)))
  /\ [][/\ (fieldIdx' = fieldIdx /\ Len(Allocating(yielded')) > Len(Allocating(yielded)))
           => /\ Len(Allocating(yielded')) = Len(Allocating(yielded)) + 1
              /\ Len(sent') = Len(sent) + 1
              /\ sent'[Len(sent')].expr \in VarRefs(Len(Allocating(yielded')))
              /\ \A k \in DOMAIN sent : sent[k].expr # sent'[Len(sent')].expr
        /\ (fieldIdx' # fieldIdx)
           => /\ yielded' = <<>>
              /\ \A prefix \in IdPrefixes : state'.ids[prefix] = 0]_vars

\* the first field stashed and then called (var1, var2), and the first call of
\* the second field was handed var1 again
C13_Witness ==
  /\ fieldIdx = 2
  /\ Len(resolvers[1].yielded) = 2
  /\ resolvers[1].yielded[1].kind = "stash"
  /\ resolvers[1].sent[1].expr = VText("$context.stash.var1")
  /\ resolvers[1].yielded[2].kind = "call"
  /\ resolvers[1].sent[2].expr = VText("$context.stash.var2")
  /\ Len(yielded) = 1
  /\ yielded[1].kind = "call"
  /\ sent[1].expr = VText("$context.stash.var1")

\* what lowering the statement stmt returns, when n `var` identifiers have been
\* handed out to the field up to and including stmt
Lowered(stmt, n) ==
  CASE stmt.kind = "call" ->
         VObject(ResponseType, VText("$context.stash.var" \o ToString(n)))
    [] stmt.kind = "stash" ->
         VObject(stmt.value.type,
                 VText(IF stmt.id # NoId THEN stmt.id
                       ELSE IF stmt.local THEN "$var" \o ToString(n)
                       ELSE "$context.stash.var" \o ToString(n)))
    [] stmt.kind = "write" -> Undefined
    [] stmt.kind = "getState" -> TheState

\* the tokens written for a returned result
TrailerTokens(result) ==
  IF result = Undefined THEN <<"null">>
  ELSE <<"$util.toJson(">> \o visit(result.expr, NewInterpreterState).template \o <<")">>

\* C14: a field's program is advanced one statement at a time. While it is
\* interpreted, every yielded statement has had its value sent back except the
\* for-loops whose bodies are still open; a step yields at most one statement,
\* appended after those yielded before, and sends back at most one value; the
\* value sent back for a call, stash, write or getState statement is the result
\* of lowering that very statement, a for-loop statement sends nothing back
\* before its body has completed, and an unrecognised one aborts; and when the
\* program completes, the statements and values of the field are final and the
\* returned value is the result the resolver's response renders last.
C14_SingleStepped ==
  /\ [](pc = "interpret" => Len(yielded) = Len(sent) + Len(loops))
  /\ [][/\ (fieldIdx' = fieldIdx /\ yielded' # yielded)
           => /\ Len(yielded') = Len(yielded) + 1
              /\ SubSeq(yielded', 1, Len(yielded)) = yielded
              /\ LET stmt == yielded'[Len(yielded')]
                 IN /\ stmt.kind \in {"call", "stash", "write", "getState"}
                         => sent' = Append(sent,
                                           Lowered(stmt, Len(Allocating(yielded'))))
                    /\ stmt.kind = "for" => (sent' = sent /\ Len(loops') = Len(loops) + 1)
                    /\ stmt.kind = "unsupported" => (sent' = sent /\ pc' = "failed")
        /\ (fieldIdx' = fieldIdx /\ sent' # sent)
           => /\ Len(sent') = Len(sent) + 1
              /\ SubSeq(sent', 1, Len(sent)) = sent
        /\ (Len(resolvers') > Len(resolvers))
           => LET o == resolvers'[Len(resolvers')]
              IN /\ resolvers' = Append(resolvers, o)
                 /\ loops = <<>>
                 /\ o.yielded = yielded
                 /\ o.sent = sent
                 /\ o.result \in {Undefined} \cup Available(sent)
                 /\ o.created
                    => IsSuffix(TrailerTokens(o.result),
                                o.config.responseMappingTemplate)]_vars

\* a program stashed a value, called with the reference it got back and returned
\* the reference the call sent back
C14_Witness ==
  \E i \in DOMAIN resolvers :
    LET o == resolvers[i]
    IN /\ Len(o.yielded) = 2
       /\ o.yielded[1].kind = "stash"
       /\ o.yielded[2].kind = "call"
       /\ o.yielded[2].value = o.sent[1]
       /\ o.result = o.sent[2]
       /\ o.created
       /\ Text(o.config.responseMappingTemplate)
            = "#set($context.stash.var2 = $context.result)\n\n$util.toJson($context.stash.var2)"

(***************************************************************************)
(* Properties of RenderSpec                                                *)
(***************************************************************************)
Last(stmts) == stmts[Len(stmts)]

\* the step yields a write statement of exactly the expression expr
Writes(expr) ==
  /\ Len(yielded') = Len(yielded) + 1
  /\ Last(yielded') = WriteStmt(VObject(any, expr))

\* C15: an unindent at indentation depth 0 raises the fatal error `indent
\* underflow`, which aborts the build; an unindent at a depth d > 0 lowers the
\* depth to d - 1 and raises nothing.
C15_UnindentUnderflow ==
  [][Writes(VUnindent) =>
       IF state.indentSpaces = 0
       THEN pc' = "failed" /\ error' = "indent underflow"
       ELSE /\ state'.indentSpaces = state.indentSpaces - 1
            /\ state'.fault = ""
            /\ pc' = "interpret"
            /\ error' = ""]_vars

\* in the body of a for-loop an unindent lowered the depth from 1 to 0 without
\* error, and a second one at depth 0 raised the underflow
C15_Witness ==
  /\ Len(yielded) = 3
  /\ yielded[1].kind = "for"
  /\ yielded[2] = WriteStmt(VObject(any, VUnindent))
  /\ yielded[3] = WriteStmt(VObject(any, VUnindent))
  /\ state.indentSpaces = -1
  /\ pc = "failed"
  /\ error = "indent underflow"

\* the number of directives of the given kind ("indent" or "unindent") in expr
RECURSIVE Directives(_, _)
RECURSIVE DirectivesOfAll(_, _)
Directives(expr, kind) ==
  IF expr.t = kind THEN 1
  ELSE IF expr.t = "concat" THEN DirectivesOfAll(expr.parts, kind)
  ELSE 0
DirectivesOfAll(parts, kind) ==
  IF parts = <<>> THEN 0
  ELSE Directives(Head(parts), kind) + DirectivesOfAll(Tail(parts), kind)

\* a for-loop, or a write of text nested in blocks and JSON literals
WellFormed(stmt) ==
  \/ stmt.kind = "for"
  \/ stmt.kind = "write" /\ stmt.value.expr \in Literals[MaxNest]

\* C16: every expression nested from blocks and JSON array and object literals
\* holds as many unindent as indent directives and, rendered from depth 0, ends
\* at depth 0 without an underflow (so it never goes below the depth it started
\* at); writing such an expression leaves the depth as it was; and as long as a
\* program has yielded only for-loops and such writes, the depth is the number
\* of for-loop bodies still open, so it is back at its old value when a loop has
\* been lowered, and no underflow is raised.
C16_IndentBalance ==
  /\ \A e \in Literals[MaxNest] :
       /\ Directives(e, "indent") = Directives(e, "unindent")
       /\ visit(e, NewInterpreterState).indentSpaces = 0
       /\ visit(e, NewInterpreterState).fault = ""
  /\ []((\A k \in DOMAIN yielded : WellFormed(yielded[k]))
        => /\ state.indentSpaces = Len(loops)
           /\ state.fault = ""
           /\ pc = "interpret")
  /\ [][(/\ Len(yielded') = Len(yielded) + 1
         /\ Last(yielded').kind = "write"
         /\ WellFormed(Last(yielded')))
        => /\ state'.indentSpaces = state.indentSpaces
           /\ state'.fault = state.fault]_vars

\* the body of a for-loop wrote a block or JSON literal nested two levels deep,
\* the loop was closed, and the depth is 0 again
C16_Witness ==
  /\ Len(yielded) = 2
  /\ yielded[1].kind = "for"
  /\ yielded[2].kind = "write"
  /\ yielded[2].value.expr \in Literals[MaxNest] \ Literals[MaxNest - 1]
  /\ Directives(yielded[2].value.expr, "indent") >= 3
  /\ loops = <<>>
  /\ Len(sent) = 2
  /\ state.indentSpaces = 0

\* the types of the values the branches returned, nothing for a branch that
\* returned no value
BranchTypes(values) ==
  [i \in DOMAIN values |-> IF values[i] = Undefined THEN nothing ELSE values[i].type]

\* the position of the first branch that returned the type t
FirstBranchOf(t, types) ==
  CHOOSE i \in DOMAIN types : types[i] = t /\ \A j \in 1..(i - 1) : types[j] # t

\* the distinct types of a list of types, in the order of their first occurrence
DistinctTypes(types) ==
  LET distinct == {types[i] : i \in DOMAIN types}
  IN CHOOSE d \in [1..Cardinality(distinct) -> distinct] :
       \A i, j \in DOMAIN d :
         i < j => FirstBranchOf(d[i], types) < FirstBranchOf(d[j], types)

\* the value sent back for an if statement whose branches returned `values`
UnifiedFrom(values, result) ==
  LET remaining == DistinctTypes(BranchTypes(values))
  IN IF Len(remaining) = 1
     THEN result.type = remaining[1] /\ result.type.Kind # "unionShape"
     ELSE /\ result.type.Kind = "unionShape"
          /\ result.type.UnionItems = remaining

\* C17: when an if statement completes, the value sent back is typed by its
\* branches' values: a branch that returned nothing counts as the nothing type, a
\* type equal to an earlier branch's type is dropped, one remaining type is the
\* type of the result itself (not a union), and two or more remaining types give
\* a union over exactly those types in the order of their first occurrence
C17_IfValueUnified ==
  [][Len(ifs') < Len(ifs) =>
       /\ Len(sent') = Len(sent) + 1
       /\ \E value \in BranchResults :
            UnifiedFrom(Append(Innermost(ifs).values, value), Last(sent'))]_vars

\* an if statement with three branches was completed whose value is a union of
\* two types: one branch returned a type an earlier branch had returned
C17_Witness ==
  /\ pc = "interpret"
  /\ ifs = <<>>
  /\ Len(yielded) = 1
  /\ steps = 3
  /\ Len(sent) = 1
  /\ sent[1].type.Kind = "unionShape"
  /\ sent[1].type.UnionItems = <<string, integer>>

\* what field i had been sent, and the functions it had, in the earlier build
SentOf(i) ==
  IF i <= Len(earlier.resolvers) THEN earlier.resolvers[i].sent ELSE earlier.sent
FunctionsOf(i) ==
  IF i <= Len(earlier.resolvers) THEN earlier.resolvers[i].functions
  ELSE earlier.functions

\* the second build has so far produced what the first build produced
SameAsEarlier ==
  /\ Len(resolvers) <= Len(earlier.resolvers)
  /\ resolvers = SubSeq(earlier.resolvers, 1, Len(resolvers))
  /\ IsPrefix(constructs, earlier.constructs)
  /\ IsPrefix(blocks, earlier.blocks)
  /\ pc = "interpret" =>
       /\ IsPrefix(sent, SentOf(Len(resolvers) + 1))
       /\ IsPrefix(functions, FunctionsOf(Len(resolvers) + 1))
  /\ pc \in {"built", "failed"} => BuildOutput = earlier

\* the part of a stage name after the field's name
StageNumber(fn, r) ==
  SubSeq(fn.name,
         Len(fieldFQN(typeSpec.type, typeSpec.fields[r.field].name)) + 1, Len(fn.name))

\* two fields' outcomes differ in nothing but the names of the fields
SameButField(r1, r2) ==
  /\ r1.created = r2.created
  /\ r1.sent = r2.sent
  /\ r1.trailing = r2.trailing
  /\ r1.config.kind = r2.config.kind
  /\ r1.config.requestMappingTemplate = r2.config.requestMappingTemplate
  /\ r1.config.responseMappingTemplate = r2.config.responseMappingTemplate
  /\ Len(r1.functions) = Len(r2.functions)
  /\ \A k \in DOMAIN r1.functions :
       /\ r1.functions[k].requestMappingTemplate = r2.functions[k].requestMappingTemplate
       /\ r1.functions[k].responseMappingTemplate
            = r2.functions[k].responseMappingTemplate
       /\ StageNumber(r1.functions[k], r1) = StageNumber(r2.functions[k], r2)

DescriptorOf(r) == CacheOf(typeSpec.fields[r.field])

\* the caching key a resolver carries for the key k of the descriptor
Normalized(k, carried) ==
  IF IsPrefix(IdentityPrefix, k) THEN carried = k
  ELSE /\ Len(carried) = Len(ArgumentsPrefix) + Len(k)
       /\ IsPrefix(ArgumentsPrefix, carried)
       /\ IsSuffix(k, carried)

\* C19: a resolver carries a caching configuration exactly when the API has a
\* cache and the field has a cache descriptor; the configuration has the ttl of
\* the descriptor and its keys in their order, a key that starts with
\* `$context.identity` unchanged and every other key k as `$context.arguments.`
\* followed by k
C19_CachingConfig ==
  \A i \in DOMAIN resolvers :
    resolvers[i].created =>
      LET carried == resolvers[i].config.cachingConfig
          cache == DescriptorOf(resolvers[i])
      IN /\ (carried # NoCachingConfig) <=> (apiCache /\ cache # NoCache)
         /\ carried # NoCachingConfig =>
              /\ carried.ttl = cache.ttl
              /\ (cache.keys = NoKeys) <=> (carried.cachingKeys = NoKeys)
              /\ cache.keys # NoKeys =>
                   /\ Len(carried.cachingKeys.list) = Len(cache.keys.list)
                   /\ \A k \in DOMAIN cache.keys.list :
                        Normalized(cache.keys.list[k], carried.cachingKeys.list[k])

\* with an API cache, the resolver of the first field carries an identity key
\* and a prefixed argument name, and the resolver of the second field, which has
\* no cache descriptor, carries no caching configuration
C19_Witness ==
  /\ apiCache
  /\ Len(resolvers) = 2
  /\ resolvers[1].created /\ resolvers[2].created
  /\ resolvers[1].config.cachingConfig # NoCachingConfig
  /\ resolvers[1].config.cachingConfig.ttl = 60
  /\ resolvers[1].config.cachingConfig.cachingKeys
       = KeysOf(<<IdentityPrefix \o <<".", "s", "u", "b">>,
                  ArgumentsPrefix \o <<"i", "d">>>>)
  /\ resolvers[2].config.cachingConfig = NoCachingConfig

\* the shapes the signature of a field names: the field's shape, or the shapes
\* of its arguments and the shape it returns
Positions(shape) ==
  IF isFunctionShape(shape)
  THEN {shape.args[i].shape : i \in DOMAIN shape.args} \cup {shape.returns}
  ELSE {shape}

\* the shape and the items of the arrays and sets it is made of
RECURSIVE ItemsOf(_)
ItemsOf(shape) ==
  {shape} \cup (IF shape.Kind \in {"arrayShape", "setShape"} THEN ItemsOf(shape.Items)
                ELSE {})

\* the shape and the items of the arrays and sets it is made of, as far as no
\* array or set on the way has a graphqlType of its own
RECURSIVE AnnotatedItemsOf(_)
AnnotatedItemsOf(shape) ==
  {shape} \cup (IF /\ shape.Kind \in {"arrayShape", "setShape"}
                   /\ shape.graphqlType = NoGraphqlType
                THEN AnnotatedItemsOf(shape.Items)
                ELSE {})

\* a map shape without a graphqlType
BareMap(shape) == shape.Kind = "mapShape" /\ shape.graphqlType = NoGraphqlType

\* the build was aborted with the error about maps and no block was emitted
MapRejected ==
  /\ pc = "failed"
  /\ error = "maps are not supported in GraphQL - use a RecordType instead"
  /\ blocks = <<>>

\* C20 as the specification states it: a map shape without a graphqlType that
\* is the type of the field, of an argument or of the return value, or an item
\* of an array in one of these, makes the annotation fail with the error about
\* maps, and no type block is emitted for the record
C20_MapItemRejected ==
  (pc \in {"built", "failed"}
     /\ \E used \in Positions(typeSpec.fields[1].shape) :
          \E shape \in ItemsOf(used) : BareMap(shape))
    => MapRejected

\* C20 (amended): a map shape without a graphqlType makes the annotation fail
\* with the error about maps, and no type block is emitted for the record, when
\* it is the type of the field, of an argument or of the return value, or an
\* item of arrays and sets in one of these none of which has a graphqlType of
\* its own; an array or set with a graphqlType of its own is annotated by that
\* name whatever its items are, and the record gets its type block
C20_MapRejected ==
  pc \in {"built", "failed"} =>
    IF \E used \in Positions(typeSpec.fields[1].shape) :
         \E shape \in AnnotatedItemsOf(used) : BareMap(shape)
    THEN MapRejected
    ELSE pc = "built" /\ Len(blocks) = 1 /\ error = ""

\* the argument of a field is an array of maps: the resolver of the field was
\* created, then the signature of the type failed
C20_Witness ==
  /\ typeSpec.fields[1].shape
       = VFunction(<<[name |-> "key", shape |-> array(map(string))]>>, string)
  /\ Len(resolvers) = 1
  /\ resolvers[1].created
  /\ MapRejected

\* the value is, or holds in an array or object, a value that is none of the
\* kinds the literal rule table names
RECURSIVE HasUnsupported(_)
HasUnsupported(obj) ==
  CASE obj.kind \in {"function", "symbol"} -> TRUE
    [] obj.kind = "array" -> \E i \in DOMAIN obj.items : HasUnsupported(obj.items[i])
    [] obj.kind = "object" ->
         \E i \in DOMAIN obj.members : HasUnsupported(obj.members[i].value)
    [] OTHER -> FALSE

\* the tokens without line breaks, indentation and empty tokens
Compact(tokens) == StrOf(SelectSeq(tokens, LAMBDA t : t \notin {"\n", "  ", ""}))

\* the texts joined by commas
RECURSIVE CommaSeparated(_)
CommaSeparated(texts) ==
  IF texts = <<>> THEN ""
  ELSE IF Len(texts) = 1 THEN texts[1]
  ELSE texts[1] \o "," \o CommaSeparated(Tail(texts))

\* the literal rule table
RECURSIVE TableText(_)
TableText(obj) ==
  CASE obj.kind = "expression" -> Compact(visit(obj.expr, NewInterpreterState).template)
    [] obj.kind = "vobject" ->
         "$util.toJson("
           \o Compact(visit(obj.value.expr, NewInterpreterState).template) \o ")"
    [] obj.kind = "string" -> "\"" \o obj.s \o "\""
    [] obj.kind = "number" ->
         (CASE obj.n = 0 -> "0" [] obj.n = 12 -> "12" [] obj.n = 0 - 7 -> "-7")
    [] obj.kind = "boolean" -> IF obj.b THEN "true" ELSE "false"
    [] obj.kind \in {"null", "undefined"} -> "null"
    [] obj.kind = "date" -> "\"" \o obj.iso \o "\""
    [] obj.kind = "array" ->
         "[" \o CommaSeparated([i \in DOMAIN obj.items |-> TableText(obj.items[i])])
             \o "]"
    [] obj.kind = "object" ->
         "{" \o CommaSeparated([i \in DOMAIN obj.members |->
                                  "\"" \o obj.members[i].name \o "\": "
                                    \o TableText(obj.members[i].value)])
             \o "}"

\* C21: VExpression.json follows the literal rule table: an expression is
\* returned unchanged, a VObject becomes $util.toJson(...), a string is put in
\* double quotes as it is, a number is its base-10 text, a boolean is true or
\* false, null and undefined are null, a date is its quoted ISO text, an array
\* or object is rendered member by member, separated by commas and without a
\* trailing comma; a value that is or holds a function or a symbol makes json
\* throw, and then nothing is written and no statement is yielded
C21_JsonLiterals ==
  /\ \A i \in DOMAIN yielded :
       LET obj == yielded[i].literal
       IN /\ ~HasUnsupported(obj)
          /\ Compact(visit(yielded[i].value.expr, NewInterpreterState).template)
               = TableText(obj)
          /\ obj.kind = "expression" => yielded[i].value.expr = obj.expr
          /\ pc = "interpret" => Compact(state.template) = TableText(obj)
  /\ pc = "failed" =>
       /\ error = "could not convert literal type to expression"
       /\ yielded = <<>>
       /\ state = NewInterpreterState
       /\ resolvers = <<>>
  /\ (pc = "interpret" /\ yielded = <<>>) =>
       \A obj \in JsonValues[MaxJsonDepth] : json(obj).failed <=> HasUnsupported(obj)

\* an object whose member is an array of a number and a string was written
C21_Witness ==
  /\ pc = "interpret"
  /\ Len(yielded) = 1
  /\ yielded[1].literal
       = LRecord(<<[name |-> "k",
                    value |-> LArray(<<LNumber(0 - 7), LString("b")>>)]>>)
  /\ Text(state.template) = "{\n  \"k\": [\n    -7,\n    \"b\"\n  ]\n}"

(***************************************************************************)
(* Properties of MemoSpec                                                  *)
(***************************************************************************)
\* the positions of the getOrCreate calls made for key
CallsFor(key) ==
  {i \in 1..Len(runtimeCache.calls) : runtimeCache.calls[i].key = key}

\* the calls for key that invoked their factory
InvokedFor(key) == {i \in CallsFor(key) : runtimeCache.calls[i].invoked}

\* call i returned what the one invocation made for its key produced
ReturnedTheMade(i) ==
  \E j \in InvokedFor(runtimeCache.calls[i].key) :
    /\ j <= i
    /\ runtimeCache.calls[i].returned = runtimeCache.calls[j].made

\* C22: over any sequence of getOrCreate calls, for every key the factory is
\* invoked at most once, no call throws, and every call returns the value that
\* single invocation produced.
C22_GetOrCreateMemoizes ==
  \A key \in CacheKeys :
    /\ Cardinality(InvokedFor(key)) <= 1
    /\ \A i \in CallsFor(key) :
         /\ runtimeCache.calls[i].threw = ""
         /\ ReturnedTheMade(i)

\* the calls whose key no object inherits and whose factory, when invoked,
\* created a value other than undefined
Ordinary(key) ==
  /\ key \notin PrototypeMembers
  /\ \A i \in InvokedFor(key) : runtimeCache.calls[i].made # undefined

\* for such keys the statement of C22 holds
MemoizesOrdinary ==
  \A key \in CacheKeys :
    Ordinary(key) =>
      /\ Cardinality(InvokedFor(key)) <= 1
      /\ \A i \in CallsFor(key) :
           /\ runtimeCache.calls[i].threw = ""
           /\ ReturnedTheMade(i)

(***************************************************************************)
(* Properties of Spec: the template buffer                                 *)
(***************************************************************************)
\* the tokens an expression renders to at the indentation depth of st
RenderedAt(st, expr) ==
  visit(expr, [NewInterpreterState EXCEPT !.indentSpaces = st.indentSpaces]).template

\* the request templates of the stages of an assembled resolver
RequestTemplatesOf(config) ==
  IF config.kind = "PIPELINE"
  THEN [k \in DOMAIN config.pipelineConfig |->
          config.pipelineConfig[k].props.requestMappingTemplate]
  ELSE <<config.requestMappingTemplate>>

\* the resolver's final response template without the response of its one stage
FinalResponseOf(config, fns) ==
  IF config.kind = "PIPELINE" THEN config.responseMappingTemplate
  ELSE SubSeq(config.responseMappingTemplate,
              Len(fns[1].responseMappingTemplate) + 2,
              Len(config.responseMappingTemplate))

\* C23: lowering a call statement flushes and clears the template buffer. The
\* buffer only grows between two calls; the step that lowers call k appends one
\* stage whose request template is the buffer (the text lowered since call k-1
\* or the start of the program) followed by the call's request expression,
\* leaves the buffer empty and the stages before it as they were; and when the
\* resolver is assembled the stages carry exactly these request templates and
\* the text lowered after the last call is the head of the final response
\* template.
C23_CallFlushes ==
  [][/\ (fieldIdx' = fieldIdx /\ Len(functions') > Len(functions))
          => LET stmt == yielded'[Len(yielded')]
                 f == functions'[Len(functions')]
             IN /\ stmt.kind = "call"
                /\ functions' = Append(functions, f)
                /\ f.requestMappingTemplate
                     = state.template \o RenderedAt(state, stmt.value.expr)
                /\ state'.template = <<>>
     /\ (pc = "interpret" /\ pc' = "interpret" /\ fieldIdx' = fieldIdx
           /\ Len(resolvers') = Len(resolvers) /\ Len(functions') = Len(functions))
          => /\ functions' = functions
             /\ IsPrefix(state.template, state'.template)
     /\ (Len(resolvers') > Len(resolvers) /\ functions # <<>>)
          => LET o == resolvers'[Len(resolvers')]
             IN /\ o.created
                /\ RequestTemplatesOf(o.config)
                     = [k \in DOMAIN functions |-> functions[k].requestMappingTemplate]
                /\ IsPrefix(state.template, FinalResponseOf(o.config, functions))
    ]_vars

\* a resolver of two calls with a stash between them and none before the first:
\* the #set of the stash is in the second stage's request template only
C23_Witness ==
  \E i \in DOMAIN resolvers :
    LET o == resolvers[i]
        requests == RequestTemplatesOf(o.config)
    IN /\ o.created
       /\ Len(o.yielded) = 3
       /\ o.yielded[1].kind = "call"
       /\ o.yielded[2].kind = "stash"
       /\ o.yielded[3].kind = "call"
       /\ Len(requests) = 2
       /\ \A n \in DOMAIN requests[1] : requests[1][n] # "#set("
       /\ \E n \in DOMAIN requests[2] : requests[2][n] = "#set("
       /\ \A n \in DOMAIN o.config.responseMappingTemplate :
            o.config.responseMappingTemplate[n] # "#set("

\* the number of `#set(` tokens of a template
SetCount(tokens) == Len(SelectSeq(tokens, LAMBDA token : token = "#set("))

\* the variable of a stash statement lowered when n `var` identifiers have been
\* handed out to the field before it
StashVar(stmt, n) ==
  IF stmt.id # NoId THEN stmt.id
  ELSE IF stmt.local THEN "$var" \o ToString(n + 1)
  ELSE "$context.stash.var" \o ToString(n + 1)

SetsOf(tokens, var) ==
  {n \in 1..(Len(tokens) - 1) : tokens[n] = "#set(" /\ tokens[n + 1] = var}

\* C25: an if statement stashes a result variable if and only if at least one of
\* its branches returned a value. When the statement completes and some branch
\* returned a value, one `#set` of the next `$context.stash.var` identifier is
\* emitted after the statement's `#end` and the reference to it is sent back;
\* when every branch returned nothing, nothing is emitted after the `#end`, no
\* identifier is taken, the template assigns neither a stash variable for the
\* statement nor the statement's branch variable, and the value sent back is
\* the nothing object whose text is null.
C25_IfResultStashed ==
  [][Len(ifs') < Len(ifs) =>
       \E value \in BranchResults :
         LET open == Innermost(ifs)
             values == Append(open.values, value)
             some == \E i \in DOMAIN values : values[i] # Undefined
             parsed == WriteLine(Write(BranchClose(state, open.returnId, value),
                                       <<VText("#end")>>)).template
             var == "$context.stash.var" \o ToString(state.ids["var"] + 1)
             rest == SubSeq(state'.template, Len(parsed) + 1, Len(state'.template))
         IN /\ IsPrefix(parsed, state'.template)
            /\ Len(sent') = Len(sent) + 1
            /\ some => /\ SetCount(rest) = 1
                       /\ SetsOf(rest, var) = {1}
                       /\ SetsOf(state.template, var) = {}
                       /\ Last(sent').expr = VText(var)
                       /\ state'.ids["var"] = state.ids["var"] + 1
            /\ ~some => /\ rest = <<>>
                        /\ SetsOf(state'.template, var) = {}
                        /\ SetsOf(state'.template, open.returnId) = {}
                        /\ Last(sent') = VObject(nothing, VText("null"))
                        /\ state'.ids = state.ids]_vars

\* an if statement of two branches that returned nothing has completed next to
\* one whose second branch returned a value: only the latter has a result variable
C25_Witness ==
  /\ pc = "interpret"
  /\ ifs = <<>>
  /\ Len(yielded) = 2
  /\ yielded[1].kind = "if"
  /\ yielded[2].kind = "if"
  /\ Len(sent) = 2
  /\ sent[1] = VObject(nothing, VText("null"))
  /\ sent[2].expr = VText("$context.stash.var1")
  /\ SetsOf(state.template, "$local1") = {}
  /\ SetsOf(state.template, "$local2") # {}
  /\ Cardinality(SetsOf(state.template, "$context.stash.var1")) = 1

(***************************************************************************)
(* Properties of SchemaSpec: unions                                        *)
(***************************************************************************)
\* the positions of the union blocks named fqn
UnionBlocksNamed(list, fqn) ==
  {i \in DOMAIN list : list[i].decl = "union" /\ list[i].name = fqn}

\* the FQNs of the alternatives of a union that have one, in order
MemberNames(u) ==
  LET named == SelectSeq(u.UnionItems, LAMBDA item : item.FQN # NoFQN)
  IN [i \in DOMAIN named |-> named[i].FQN]

\* the unions among the shapes of the model's type graphs
Unions == {shape \in OutShapes \cup InShapes : shape.Kind = "unionShape"}

\* shape is, or has among its alternatives at any depth, a union that is not
\* optional and has no FQN
RECURSIVE HasUnnamedUnion(_)
HasUnnamedUnion(shape) ==
  /\ shape.Kind = "unionShape"
  /\ \/ ~shape.nullable /\ shape.FQN = NoFQN
     \/ \E i \in DOMAIN shape.UnionItems : HasUnnamedUnion(shape.UnionItems[i])

\* C26: a union marked optional never produces a union block, while parseType
\* is still called on each of its alternatives; a union that is not optional
\* and has an FQN produces the block `union <FQN> = A | B | ...` the first time
\* parseType completes on it and no second one afterwards; a union that is not
\* optional and has no FQN aborts the synthesis: parseType throws on it, and no
\* synthesis completes for a schema with such a union as the shape of a field.
C26_UnionBlocks ==
  /\ [](\A u \in Unions :
          /\ u.nullable => UnionBlocksNamed(schema.blocks, u.FQN) = {}
          /\ Cardinality(UnionBlocksNamed(schema.blocks, u.FQN)) <= 1)
  /\ [](schema.phase = "done" =>
          /\ ~HasUnnamedUnion(schema.api.query[1].shape)
          /\ ~HasUnnamedUnion(schema.api.query[2].shape.returns))
  /\ [][/\ (Running("parseType") /\ Top.shape.Kind = "unionShape")
             => /\ schema'.phase = "parse"
                /\ schema'.blocks = schema.blocks
                /\ Len(schema'.stack) > Len(Top.shape.UnionItems)
                /\ \A i \in DOMAIN Top.shape.UnionItems :
                     schema'.stack[i] = Task("parseType", Top.shape.UnionItems[i])
        /\ Running("unionBlock")
             => LET u == Top.shape
                IN /\ u.nullable
                        => schema'.phase = "parse" /\ schema'.blocks = schema.blocks
                   /\ (~u.nullable /\ u.FQN = NoFQN)
                        => /\ schema'.phase = "failed"
                           /\ schema'.error = "un-named union types are not supported"
                           /\ schema'.blocks = schema.blocks
                   /\ (~u.nullable /\ u.FQN # NoFQN)
                        => /\ schema'.phase = "parse"
                           /\ \E i \in UnionBlocksNamed(schema'.blocks, u.FQN) :
                                /\ UnionBlocksNamed(schema'.blocks, u.FQN) = {i}
                                /\ [k \in DOMAIN schema'.blocks[i].members |->
                                      schema'.blocks[i].members[k].name] = MemberNames(u)
                           /\ Len(schema'.blocks) - Len(schema.blocks)
                                = IF UnionBlocksNamed(schema.blocks, u.FQN) = {} THEN 1 ELSE 0
       ]_vars

\* a schema whose query returns the union SearchResult from two fields was
\* synthesised with one union block
C26_Witness ==
  /\ schema.phase = "done"
  /\ schema.api.query[1].shape = SearchResult
  /\ schema.api.query[2].shape.returns = SearchResult
  /\ Cardinality(UnionBlocksNamed(schema.blocks, "SearchResult")) = 1

(***************************************************************************)
(* Properties of SchemaSpec: termination                                   *)
(***************************************************************************)
\* the size of the calls parseType or parseInputType makes on a shape before it
\* reaches a record or an enum, which are looked up in seenDataTypes
RECURSIVE Size(_)
SizeOfAll(shapes) ==
  LET sizes == [i \in DOMAIN shapes |-> Size(shapes[i]) + 1]
      Sum[n \in 0..Len(shapes)] == IF n = 0 THEN 0 ELSE Sum[n - 1] + sizes[n]
  IN Sum[Len(shapes)]
Size(shape) ==
  CASE shape.Kind \in {"arrayShape", "setShape", "mapShape"} -> 1 + Size(shape.Items)
    [] shape.Kind = "unionShape" -> 2 + SizeOfAll(shape.UnionItems)
    [] shape.Kind = "functionShape" ->
         2 + SizeOfAll(ShapesOf(shape.args)) + Size(shape.returns)
    [] OTHER -> 1

\* the size of a call still to be made
TaskSize(task) ==
  IF task.op \in {"unionBlock", "inputBlock"} THEN 1
  ELSE Size(task.shape) + (IF task.op = "parseInputType" THEN 1 ELSE 0)

\* the size of the calls still to be made
StackSize(stack) ==
  LET Sum[n \in 0..Len(stack)] == IF n = 0 THEN 0 ELSE Sum[n - 1] + TaskSize(stack[n])
  IN Sum[Len(stack)]

\* every FQN of the type graphs of the model
AllFQNs ==
  DOMAIN Types \cup DOMAIN EnumValues \cup {RootNames[i] : i \in DOMAIN RootNames}
  \cup {u.FQN : u \in Unions}

\* a step of the synthesis brings it closer to its end: it ends the synthesis,
\* or turns to the next root, or marks one more FQN as seen, or leaves smaller
\* calls to be made
Descends ==
  \/ schema.phase = "parse" /\ schema'.phase \in {"done", "failed"}
  \/ /\ schema.phase = "parse" /\ schema'.phase = "parse"
     /\ \/ schema'.root > schema.root
        \/ /\ schema'.root = schema.root
           /\ schema.seenDataTypes \subseteq schema'.seenDataTypes
           /\ schema.seenDataTypes # schema'.seenDataTypes
        \/ /\ schema'.root = schema.root
           /\ schema'.seenDataTypes = schema.seenDataTypes
           /\ StackSize(schema'.stack) < StackSize(schema.stack)

\* the synthesis terminates: the roots and the FQNs are finitely many and every
\* step descends
TraversalTerminates ==
  /\ [](/\ schema.seenDataTypes \subseteq AllFQNs
        /\ schema.root \in 1..(Len(RootNames) + 1))
  /\ [][Descends]_vars

\* the records a shape in an output position refers to, directly or through
\* arrays, unions and function returns
RECURSIVE OutRecords(_)
OutRecordsOfAll(shapes) == UNION {OutRecords(shapes[i]) : i \in DOMAIN shapes}
OutRecords(shape) ==
  CASE shape.Kind = "recordShape" -> {shape.FQN}
    [] shape.Kind = "arrayShape" -> OutRecords(shape.Items)
    [] shape.Kind = "unionShape" -> OutRecordsOfAll(shape.UnionItems)
    [] shape.Kind = "functionShape" -> OutRecords(shape.returns)
    [] OTHER -> {}

ExpandRecords(api, fqns) ==
  fqns \cup UNION {OutRecordsOfAll(ShapesOf(typeSpecOf(api, fqn).fields)) : fqn \in fqns}

RECURSIVE RecordClosure(_, _)
RecordClosure(api, fqns) ==
  IF ExpandRecords(api, fqns) = fqns THEN fqns
  ELSE RecordClosure(api, ExpandRecords(api, fqns))

\* the records of the type graph of an api
RecordsOf(api) ==
  RecordClosure(api, {RootNames[i] :
                        i \in {j \in DOMAIN RootNames : isUseful(RootFields(api, j))}})

\* the calls of interpretResolverPipeline on the TypeSpec of the record fqn: each
\* is followed by generateTypeSignature, which pushes the record's type block
Interpretations(fqn) ==
  {i \in DOMAIN schema.blocks : schema.blocks[i].decl = "type" /\ schema.blocks[i].name = fqn}

\* no record's resolver pipeline is interpreted twice
InterpretedAtMostOnce ==
  \A fqn \in AllFQNs : Cardinality(Interpretations(fqn)) <= 1

\* C27: the schema traversal terminates on every type graph, cyclic ones
\* included, and when it has completed the resolver pipeline of every record of
\* the graph has been interpreted exactly once.
C27_TerminatesOnceEach ==
  /\ TraversalTerminates
  /\ [](schema.phase = "done" =>
          \A fqn \in RecordsOf(schema.api) : Cardinality(Interpretations(fqn)) = 1)

\* a synthesis completed in which the record Post, returned by a root field, was
\* never interpreted
C27_NeverInterpreted ==
  /\ schema.phase = "done"
  /\ schema.api.query[2].shape.returns = Record("Post")
  /\ Interpretations("Post") = {}

(***************************************************************************)
(* Properties of Spec: the NONE data source                                *)
(***************************************************************************)
\* the positions at which the construct with id 'None' was instantiated
NoneConstructs == {c \in DOMAIN constructs : constructs[c] = <<"None">>}

\* the fields assembled on the NONE data source
NoneFields == {i \in DOMAIN resolvers : resolvers[i].config.dataSourceName = <<"NONE">>}

\* C29: across all fields of a build the NONE data source (construct id 'None',
\* name 'NONE') is instantiated at most once, however many fields are resolved
\* without a call statement.
C29_NoneOnce == Cardinality(NoneConstructs) <= 1

\* the NONE data source is instantiated once for every field resolved on it
NonePerField == Cardinality(NoneConstructs) = Cardinality(NoneFields)

\* two fields were resolved without a call and 'None' was instantiated twice
C29_NoneTwice ==
  /\ pc = "built"
  /\ Cardinality(NoneFields) = 2
  /\ Cardinality(NoneConstructs) = 2

(***************************************************************************)
(* Properties of NamesSpec                                                 *)
(***************************************************************************)
\* the stages of the build so far, in the order of their creation: those of the
\* fields assembled and those of the field being interpreted
RECURSIVE StagesOf(_)
StagesOf(outcomes) ==
  IF outcomes = <<>> THEN <<>>
  ELSE StagesOf(SubSeq(outcomes, 1, Len(outcomes) - 1)) \o Last(outcomes).functions

AllStages == StagesOf(resolvers) \o (IF pc = "interpret" THEN functions ELSE <<>>)

\* the construct ids of the data sources and pipeline functions of the build
StageConstructs ==
  SelectSeq(constructs, LAMBDA id : Head(id) \in {"DataSource(", "Function("})

\* C28: stage names are unique within a build. Every stage is the stage of one
\* record type, field and stage index, so no two stages of the build have the
\* same name or data source name, and no two data sources or pipeline functions
\* have the same construct id.
C28_StageNamesUnique ==
  /\ \A i, j \in DOMAIN AllStages :
       i # j => /\ AllStages[i].name # AllStages[j].name
                /\ AllStages[i].dataSourceName # AllStages[j].dataSourceName
  /\ \A i, j \in DOMAIN StageConstructs : i # j => StageConstructs[i] # StageConstructs[j]

\* the stages of one field have different names
UniqueWithinField ==
  \A i, j \in DOMAIN functions : i # j => functions[i].name # functions[j].name

\* the first stage of field b_c of the record A and the first stage of field c
\* of the record A_b are both named A_b_c1
C28_SameName ==
  /\ Len(AllStages) = 2
  /\ StrOf(AllStages[1].name) = "A_b_c1"
  /\ StrOf(AllStages[2].name) = "A_b_c1"
  /\ Len(resolvers) = 3

(***************************************************************************)
(* Properties of RenderSpec: the indentation depth                         *)
(***************************************************************************)
\* C30: the indentation depth is never negative, also not after an unindent
\* that raised the underflow error: the step that raises the error leaves the
\* depth as it was.
C30_DepthNeverNegative ==
  /\ [](state.indentSpaces >= 0)
  /\ [][(state.fault = "" /\ state'.fault = "indent underflow")
          => state'.indentSpaces = state.indentSpaces]_vars

\* as long as no error was raised the depth is not negative
DepthNonNegativeUnlessFailed == state.fault = "" => state.indentSpaces >= 0

\* an unindent raised the underflow error and left the depth at -1
C30_NegativeDepth ==
  /\ pc = "failed"
  /\ error = "indent underflow"
  /\ state.indentSpaces = -1

====
